---- MODULE Spec2Model ----
(***************************************************************************)
(* Model of the plugin core of decentclaude (src/plugins/core):            *)
(*   version.py       SemanticVersion, VersionChecker                      *)
(*   dependencies.py  DependencyResolver                                   *)
(*   loader.py        PluginDiscovery, PluginLoader, PluginManager         *)
(* Every operation of PluginManager is one action; the calls it makes      *)
(* (resolver, loader, plugin callbacks) are operators applied inside it.   *)
(***************************************************************************)
EXTENDS Integers, Sequences, FiniteSets, TLC

VARIABLES
    catalog,             \* what the plugin directories hold: name -> manifest
    discovered_plugins,  \* PluginManager.discovered_plugins (list of names)
    dependency_graph,    \* DependencyResolver.dependency_graph (ordered dict)
    available_plugins,   \* DependencyResolver.available_plugins
    loaded_plugins,      \* PluginManager.loaded_plugins: name -> instance
    plugin_configs,      \* PluginManager.plugin_configs: name -> config
    loaded_modules,      \* PluginLoader.loaded_modules (cache keys)
    calls,               \* number of PluginManager calls made so far
    last,                \* record of the most recent call and what it did
    threads              \* the _load_plugin_class calls in progress

vars == <<catalog, discovered_plugins, dependency_graph, available_plugins,
          loaded_plugins, plugin_configs, loaded_modules, calls, last,
          threads>>

(***************************************************************************)
(* Bounds                                                                  *)
(***************************************************************************)
\* Number of PluginManager calls in one run.
MaxCalls == 3

None == "None"

Range(s) == {s[i] : i \in DOMAIN s}

\* The plugin names of the catalogs below, in directory listing order.
AllNames == <<"a", "b", "c">>

Plugins == Range(AllNames)

(***************************************************************************)
(* Generic helpers                                                         *)
(***************************************************************************)
Perms(S) == {s \in [1..Cardinality(S) -> S] : Range(s) = S}

(***************************************************************************)
(* version.py: SemanticVersion.  A version string is a sequence of         *)
(* one-character strings, so that parsing is computed and can fail.        *)
(***************************************************************************)
Digits == {"0", "1", "2", "3", "4", "5", "6", "7", "8", "9"}

\* [a-z0-9.-] under re.IGNORECASE, over the alphabet the model uses
IdentChars == Digits \cup {"a", "b", "r", "c", ".", "-"}

DigitVal(ch) ==
    CASE ch = "0" -> 0 [] ch = "1" -> 1 [] ch = "2" -> 2 [] ch = "3" -> 3
      [] ch = "4" -> 4 [] ch = "5" -> 5 [] ch = "6" -> 6 [] ch = "7" -> 7
      [] ch = "8" -> 8 [] ch = "9" -> 9

RECURSIVE IntOf(_)
\* int(match.group(i)) of a non-empty digit string
IntOf(ds) ==
    IF Len(ds) = 0 THEN 0
    ELSE 10 * IntOf(SubSeq(ds, 1, Len(ds) - 1)) + DigitVal(ds[Len(ds)])

\* position of the first occurrence of ch in s, 0 when there is none
FirstIndex(s, ch) ==
    IF \E i \in DOMAIN s : s[i] = ch
    THEN CHOOSE i \in DOMAIN s : s[i] = ch /\ \A j \in 1..(i - 1) : s[j] # ch
    ELSE 0

IsNumber(ds) == Len(ds) > 0 /\ \A i \in DOMAIN ds : ds[i] \in Digits

IsIdent(cs) == Len(cs) > 0 /\ \A i \in DOMAIN cs : cs[i] \in IdentChars

\* s[:i-1] and s[i+1:] around position i; the whole and the empty string
\* when i = 0 (no separator)
Before(s, i) == IF i = 0 THEN s ELSE SubSeq(s, 1, i - 1)

After(s, i) == IF i = 0 THEN <<>> ELSE SubSeq(s, i + 1, Len(s))

RECURSIVE Split(_, _), SplitAt(_, _, _)
\* the pieces of s between the occurrences of ch
Split(s, ch) == SplitAt(s, ch, FirstIndex(s, ch))

SplitAt(s, ch, i) ==
    IF i = 0 THEN <<s>> ELSE <<Before(s, i)>> \o Split(After(s, i), ch)

\* SemanticVersion._parse: the groups of
\* ^(\d+)\.(\d+)\.(\d+)(?:-([a-z0-9.-]+))?(?:\+([a-z0-9.-]+))?$
\* parts are the dot-separated pieces before the first "-" or "+", pre what
\* follows the first "-" (at dash), meta what follows the first "+" (at plus)
VersionMatch(parts, pre, dash, meta, plus) ==
    IF /\ Len(parts) = 3
       /\ \A i \in DOMAIN parts : IsNumber(parts[i])
       /\ (dash = 0 \/ IsIdent(pre))
       /\ (plus = 0 \/ IsIdent(meta))
    THEN [raised |-> None, major |-> IntOf(parts[1]), minor |-> IntOf(parts[2]),
          patch |-> IntOf(parts[3]), prerelease |-> pre, metadata |-> meta]
    ELSE [raised |-> "ValueError"]

VersionCore(head, dash, meta, plus) ==
    VersionMatch(Split(Before(head, dash), "."), After(head, dash), dash, meta, plus)

VersionHead(s, plus) ==
    VersionCore(Before(s, plus), FirstIndex(Before(s, plus), "-"), After(s, plus), plus)

\* SemanticVersion.__init__: only a str can be matched; re.match raises
\* TypeError on anything else
SemanticVersion(version_string) ==
    IF version_string.t # "str"
    THEN [raised |-> "TypeError"]
    ELSE VersionHead(version_string.v, FirstIndex(version_string.v, "+"))

\* Python's ordering of two str values (plain text, code point by code point)
CharCode(ch) ==
    CASE ch = "-" -> 45 [] ch = "." -> 46
      [] ch \in Digits -> 48 + DigitVal(ch)
      [] ch = "a" -> 97 [] ch = "b" -> 98 [] ch = "c" -> 99 [] ch = "r" -> 114

RECURSIVE StrLess(_, _)
StrLess(x, y) ==
    IF Len(y) = 0 THEN FALSE
    ELSE IF Len(x) = 0 THEN TRUE
    ELSE IF x[1] # y[1] THEN CharCode(x[1]) < CharCode(y[1])
    ELSE StrLess(Tail(x), Tail(y))

\* SemanticVersion.__eq__
VersionEq(v, w) ==
    /\ v.major = w.major /\ v.minor = w.minor /\ v.patch = w.patch
    /\ v.prerelease = w.prerelease

\* __lt__ comparing the prerelease tags as text in every case
VersionLt_textual(v, w) ==
    IF v.major # w.major THEN v.major < w.major
    ELSE IF v.minor # w.minor THEN v.minor < w.minor
    ELSE IF v.patch # w.patch THEN v.patch < w.patch
    ELSE StrLess(v.prerelease, w.prerelease)

\* SemanticVersion.__lt__
VersionLt(v, w) ==
    IF v.major # w.major THEN v.major < w.major
    ELSE IF v.minor # w.minor THEN v.minor < w.minor
    ELSE IF v.patch # w.patch THEN v.patch < w.patch
    ELSE IF v.prerelease = <<>> /\ w.prerelease # <<>> THEN FALSE
    ELSE IF v.prerelease # <<>> /\ w.prerelease = <<>> THEN TRUE
    ELSE IF v.prerelease # <<>> /\ w.prerelease # <<>>
         THEN StrLess(v.prerelease, w.prerelease)
    ELSE FALSE

\* SemanticVersion.__ge__
VersionGe(v, w) == ~VersionLt(v, w)

\* SemanticVersion.__le__
VersionLe(v, w) == VersionLt(v, w) \/ VersionEq(v, w)

\* SemanticVersion.__gt__
VersionGt(v, w) == ~VersionLe(v, w)

\* is_compatible_with without the comparison of the major versions
is_compatible_with_any_major(v, required_version) ==
    VersionGe(v, required_version)

\* SemanticVersion.is_compatible_with
is_compatible_with(v, required_version) ==
    IF v.major # required_version.major THEN FALSE
    ELSE VersionGe(v, required_version)

\* Python values a manifest field can hold: a str (its characters) or None
PyStr(chars) == [t |-> "str", v |-> chars]

PyNone == [t |-> "NoneType", v |-> <<>>]

\* PluginManager.__init__ default: system_version = "1.0.0"
system_version == PyStr(<<"1", ".", "0", ".", "0">>)

\* VersionChecker.__init__: self.system_version = SemanticVersion(system_version)
VersionChecker_system_version == SemanticVersion(system_version)

\* check_plugin_compatibility once required_version went through
\* SemanticVersion: ValueError is caught, anything else propagates
check_required(self_system_version, required) ==
    IF required.raised = "ValueError" THEN [raised |-> None, ok |-> FALSE]
    ELSE IF required.raised # None THEN [raised |-> required.raised, ok |-> FALSE]
    ELSE [raised |-> None,
          ok |-> is_compatible_with(self_system_version, required)]

\* VersionChecker.check_plugin_compatibility: [raised, ok]
check_plugin_compatibility(required_version) ==
    check_required(VersionChecker_system_version,
                   SemanticVersion(required_version))

(***************************************************************************)
(* dependencies.py: DependencyResolver.  dependency_graph is a dict, which *)
(* keeps insertion order: a sequence of [name, deps] entries.              *)
(***************************************************************************)
GraphKeys(graph) == {graph[i].name : i \in DOMAIN graph}

\* self.dependency_graph.get(node, [])
GraphGet(graph, node) ==
    IF node \in GraphKeys(graph)
    THEN graph[CHOOSE i \in DOMAIN graph : graph[i].name = node].deps
    ELSE <<>>

\* DependencyResolver.add_plugin: the dict part (assignment keeps the
\* position of an existing key)
add_plugin(graph, plugin_name, dependencies) ==
    IF plugin_name \in GraphKeys(graph)
    THEN [i \in DOMAIN graph |->
            IF graph[i].name = plugin_name
            THEN [name |-> plugin_name, deps |-> dependencies]
            ELSE graph[i]]
    ELSE Append(graph, [name |-> plugin_name, deps |-> dependencies])

\* DependencyResolver._validate_dependencies: the first (plugin, dep) pair,
\* in dict order then list order, whose dep is not available
MissingPairs(graph, available) ==
    UNION {{<<i, j>> : j \in {k \in DOMAIN graph[i].deps :
                                graph[i].deps[k] \notin available}} :
           i \in DOMAIN graph}

missing_error(graph, m) ==
    [raised |-> "MissingDependencyError",
     plugin |-> graph[m[1]].name, dep |-> graph[m[1]].deps[m[2]]]

first_missing(graph, miss) ==
    IF miss = {} THEN [raised |-> None, plugin |-> None, dep |-> None]
    ELSE missing_error(graph,
            CHOOSE m \in miss : \A n \in miss :
                m[1] < n[1] \/ (m[1] = n[1] /\ m[2] <= n[2]))

_validate_dependencies(graph, available) ==
    first_missing(graph, MissingPairs(graph, available))

\* the end of visit() with the node put at the front of load_order
visit_done_prepended(node, after) ==
    IF after.raised # None THEN after
    ELSE [after EXCEPT !.temp_mark = @ \ {node},
                       !.visited = @ \cup {node},
                       !.load_order = <<node>> \o @]

\* the end of visit(): temp_mark.remove, visited.add, load_order.append,
\* unless a visit of a dependency raised
visit_done(node, after) ==
    IF after.raised # None THEN after
    ELSE [after EXCEPT !.temp_mark = @ \ {node},
                       !.visited = @ \cup {node},
                       !.load_order = Append(@, node)]

RECURSIVE visit(_, _, _), visit_deps(_, _, _)
\* visit() returning silently from a node that is in progress
visit_skipping_in_progress(graph, node, rs) ==
    IF rs.raised # None THEN rs
    ELSE IF node \notin rs.visited /\ node \notin rs.temp_mark
    THEN visit_done(node,
            visit_deps(graph, GraphGet(graph, node),
                       [rs EXCEPT !.temp_mark = @ \cup {node}]))
    ELSE rs

\* resolve().visit: rs carries visited, temp_mark, load_order and the
\* exception in flight (raised # None skips everything that follows)
visit(graph, node, rs) ==
    IF rs.raised # None THEN rs
    ELSE IF node \in rs.temp_mark
    THEN [rs EXCEPT !.raised = "CircularDependencyError", !.plugin = node]
    ELSE IF node \notin rs.visited
    THEN visit_done(node,
            visit_deps(graph, GraphGet(graph, node),
                       [rs EXCEPT !.temp_mark = @ \cup {node}]))
    ELSE rs

\* for dep in self.dependency_graph.get(node, []): visit(dep)
visit_deps(graph, deps, rs) ==
    IF Len(deps) = 0 THEN rs
    ELSE visit_deps(graph, Tail(deps), visit(graph, Head(deps), rs))

RECURSIVE visit_all(_, _, _)
\* for plugin in self.available_plugins: if plugin not in visited: visit(plugin)
visit_all(graph, order, rs) ==
    IF Len(order) = 0 \/ rs.raised # None THEN rs
    ELSE visit_all(graph, Tail(order),
                   IF Head(order) \notin rs.visited
                   THEN visit(graph, Head(order), rs) ELSE rs)

\* what resolve() returns or raises after the traversal
resolve_result(rs) ==
    [raised |-> rs.raised, plugin |-> rs.plugin, dep |-> None,
     load_order |-> IF rs.raised = None THEN rs.load_order ELSE <<>>]

\* resolve() with the traversal run before the validation's outcome is
\* looked at
resolve_traversal_first(graph, iter_order, check) ==
    IF resolve_result(
           visit_all(graph, iter_order,
                     [visited |-> {}, temp_mark |-> {}, load_order |-> <<>>,
                      raised |-> None, plugin |-> None])).raised # None
       \/ check.raised = None
    THEN resolve_result(
            visit_all(graph, iter_order,
                      [visited |-> {}, temp_mark |-> {}, load_order |-> <<>>,
                       raised |-> None, plugin |-> None]))
    ELSE [raised |-> check.raised, plugin |-> check.plugin,
          dep |-> check.dep, load_order |-> <<>>]

resolve_checked(graph, iter_order, check) ==
    IF check.raised # None
    THEN [raised |-> check.raised, plugin |-> check.plugin,
          dep |-> check.dep, load_order |-> <<>>]
    ELSE resolve_result(
            visit_all(graph, iter_order,
                      [visited |-> {}, temp_mark |-> {}, load_order |-> <<>>,
                       raised |-> None, plugin |-> None]))

\* DependencyResolver.resolve; iter_order is the order in which this run
\* iterates the set available_plugins
resolve(graph, available, iter_order) ==
    resolve_checked(graph, iter_order, _validate_dependencies(graph, available))

\* DependencyResolver.get_dependents
get_dependents(graph, plugin_name) ==
    SelectSeq([i \in DOMAIN graph |-> graph[i].name],
              LAMBDA n : plugin_name \in Range(GraphGet(graph, n)))

\* DependencyResolver.can_unload
can_unload(graph, plugin_name) == Len(get_dependents(graph, plugin_name)) = 0

Reverse(s) == [i \in DOMAIN s |-> s[Len(s) + 1 - i]]

RECURSIVE unload_subgraph(_, _, _, _)
\* get_unload_order: the loop that registers in subgraph each plugin of
\* plugins_to_unload (rest: what is left of the list) with those of its
\* dependencies that are in the list
unload_subgraph(graph, plugins_to_unload, rest, subgraph) ==
    IF Len(rest) = 0 THEN subgraph
    ELSE unload_subgraph(graph, plugins_to_unload, Tail(rest),
            add_plugin(subgraph, Head(rest),
                SelectSeq(GraphGet(graph, Head(rest)),
                          LAMBDA d : d \in Range(plugins_to_unload))))

\* list(reversed(load_order)), or the exception resolve() raised
unload_order_of(res) == [res EXCEPT !.load_order = Reverse(@)]

\* get_unload_order with load_order returned as resolve() gave it
get_unload_order_unreversed(graph, plugins_to_unload, iter_order) ==
    resolve(unload_subgraph(graph, plugins_to_unload, plugins_to_unload, <<>>),
            Range(plugins_to_unload), iter_order)

\* DependencyResolver.get_unload_order; iter_order is the order in which
\* this run iterates the set subgraph.available_plugins
get_unload_order(graph, plugins_to_unload, iter_order) ==
    unload_order_of(
        resolve(unload_subgraph(graph, plugins_to_unload, plugins_to_unload,
                                <<>>),
                Range(plugins_to_unload), iter_order))

(***************************************************************************)
(* What the search path holds.  A catalog gives, for each plugin name, the *)
(* manifest in its directory: directory name, entry point module path,     *)
(* dependencies and requires_version (ReqAbsent: the key is not there).    *)
(***************************************************************************)
ReqAbsent == [t |-> "absent", v |-> <<>>]

Req100 == PyStr(<<"1", ".", "0", ".", "0">>)

Req200 == PyStr(<<"2", ".", "0", ".", "0">>)

Manifest(dir, deps, req) ==
    [directory |-> dir, module_path |-> <<"m">>, dependencies |-> deps,
     requires_version |-> req]

\* {A: [], B: [A], C: [A, B]}
CatDiamond ==
    [p \in Plugins |->
        CASE p = "a" -> Manifest(<<"a">>, <<>>, Req100)
          [] p = "b" -> Manifest(<<"b">>, <<"a">>, Req100)
          [] p = "c" -> Manifest(<<"c">>, <<"a", "b">>, Req100)]

\* {A: [], B: [A], C: [B]}
CatChain ==
    [p \in Plugins |->
        CASE p = "a" -> Manifest(<<"a">>, <<>>, Req100)
          [] p = "b" -> Manifest(<<"b">>, <<"a">>, Req100)
          [] p = "c" -> Manifest(<<"c">>, <<"b">>, Req100)]

\* {A: [B], B: [A], C: [C]}: a cycle and a plugin that lists itself
CatCycle ==
    [p \in Plugins |->
        CASE p = "a" -> Manifest(<<"a">>, <<"b">>, Req100)
          [] p = "b" -> Manifest(<<"b">>, <<"a">>, Req100)
          [] p = "c" -> Manifest(<<"c">>, <<"c">>, Req100)]

\* {A: [], B: [A], C: []} where B needs host 2.0.0 and C names no version
CatVersions ==
    [p \in Plugins |->
        CASE p = "a" -> Manifest(<<"a">>, <<>>, Req100)
          [] p = "b" -> Manifest(<<"b">>, <<"a">>, Req200)
          [] p = "c" -> Manifest(<<"c">>, <<>>, ReqAbsent)]

\* three independent plugins: A in directory p_q with module m, B in
\* directory p with module q_m, and C whose manifest has requires_version
\* null
CatCollide ==
    [p \in Plugins |->
        CASE p = "a" -> [directory |-> <<"p", "_", "q">>,
                         module_path |-> <<"m">>,
                         dependencies |-> <<>>, requires_version |-> Req100]
          [] p = "b" -> [directory |-> <<"p">>,
                         module_path |-> <<"q", "_", "m">>,
                         dependencies |-> <<>>, requires_version |-> Req100]
          [] p = "c" -> Manifest(<<"c">>, <<>>, PyNone)]

Catalogs == {CatDiamond, CatChain, CatCycle, CatVersions, CatCollide}

\* a manifest without requires_version taken to require the default host
\* version
RequiresOf_host_default(manifest) ==
    IF manifest.requires_version.t = "absent" THEN system_version
    ELSE manifest.requires_version

\* manifest.get("requires_version", "0.0.0")
RequiresOf(manifest) ==
    IF manifest.requires_version.t = "absent"
    THEN PyStr(<<"0", ".", "0", ".", "0">>)
    ELSE manifest.requires_version

\* check_plugin_compatibility tabulated over the requires_version values of
\* the catalogs
Compatibility ==
    [required_version \in {RequiresOf(cat[p]) : cat \in Catalogs, p \in Plugins}
        |-> check_plugin_compatibility(required_version)]

\* Directory listing order of search_path.iterdir()
DirList(found) == SelectSeq(AllNames, LAMBDA n : n \in found)

(***************************************************************************)
(* Configurations.  EmptyCfg is {} (falsy in Python), None is no argument. *)
(***************************************************************************)
EmptyCfg == "{}"

Truthy(c) == c # None /\ c # EmptyCfg

\* self.plugin_configs.get(name, default)
ConfigGet(configs, name, default) ==
    IF name \in DOMAIN configs THEN configs[name] ELSE default

NoConfigs == [p \in {} |-> EmptyCfg]

\* configs arguments tried for load_all_plugins; None and {} behave alike
\* ("if configs:"), NoConfigs stands for both
ConfigArgs == {NoConfigs, [p \in {"a", "b"} |-> "c2"]}

\* config arguments tried for load_plugin
ConfigInputs == {None, "c1"}

(***************************************************************************)
(* What the plugin's code does when it is loaded: the one step, if any,    *)
(* that goes wrong.                                                        *)
(***************************************************************************)
Faults == {"none", "bad_entry_point", "no_file", "exec_raises", "no_class",
           "not_plugin", "ctor_raises", "init_false", "init_raises",
           "validate_false", "validate_raises"}

\* at most one plugin misbehaves during one call
FaultMaps ==
    {[p \in Plugins |-> "none"]} \cup
    {[p \in Plugins |-> IF p = q THEN f ELSE "none"] :
        q \in Plugins, f \in Faults \ {"none"}}

\* An entry of the log of a call: step e on plugin p with argument v
Ev(e, p, v) == [e |-> e, p |-> p, v |-> v]

\* what initialize() or validate() did on a given fault: "True", "False" or
\* "raised"
InitializeResult(fault) ==
    IF fault = "init_false" THEN "False"
    ELSE IF fault = "init_raises" THEN "raised" ELSE "True"

ValidateResult(fault) ==
    IF fault = "validate_false" THEN "False"
    ELSE IF fault = "validate_raises" THEN "raised" ELSE "True"

(***************************************************************************)
(* loader.py: PluginLoader                                                 *)
(***************************************************************************)
\* unique_module_name = f"plugin_{plugin_dir.name}_{module_path}"
unique_module_name(manifest) ==
    <<"plugin_">> \o manifest.directory \o <<"_">> \o manifest.module_path

\* _load_plugin_class executing the module file whether or not the key is in
\* loaded_modules
load_class_uncached(name, modules, fault, key) ==
    IF fault \in {"bad_entry_point", "no_file"}
    THEN [raised |-> "PluginLoadError", events |-> <<>>,
          loaded_modules |-> modules]
    ELSE IF fault = "exec_raises"
    THEN [raised |-> "PluginLoadError",
          events |-> <<Ev("exec_module", name, None)>>,
          loaded_modules |-> modules]
    ELSE IF fault = "no_class"
    THEN [raised |-> "PluginLoadError",
          events |-> <<Ev("exec_module", name, None)>>,
          loaded_modules |-> modules \cup {key}]
    ELSE [raised |-> IF fault = "not_plugin" THEN "PluginLoadError" ELSE None,
          events |-> <<Ev("exec_module", name, None),
                       Ev("issubclass", name,
                          IF fault = "not_plugin" THEN "False" ELSE "True")>>,
          loaded_modules |-> modules \cup {key}]

\* _load_plugin_class for the cache key of the entry point
load_class(name, modules, fault, key) ==
    LET cached == key \in modules
        exec   == IF cached THEN <<>> ELSE <<Ev("exec_module", name, None)>>
        stored == modules \cup {key}
    IN  IF fault = "bad_entry_point"
        THEN [raised |-> "PluginLoadError", events |-> <<>>,
              loaded_modules |-> modules]
        ELSE IF ~cached /\ fault = "no_file"
        THEN [raised |-> "PluginLoadError", events |-> <<>>,
              loaded_modules |-> modules]
        ELSE IF ~cached /\ fault = "exec_raises"
        THEN [raised |-> "PluginLoadError", events |-> exec,
              loaded_modules |-> modules]
        ELSE IF fault = "no_class"
        THEN [raised |-> "PluginLoadError", events |-> exec,
              loaded_modules |-> stored]
        ELSE IF fault = "not_plugin"
        THEN [raised |-> "PluginLoadError",
              events |-> exec \o <<Ev("issubclass", name, "False")>>,
              loaded_modules |-> stored]
        ELSE [raised |-> None,
              events |-> exec \o <<Ev("issubclass", name, "True")>>,
              loaded_modules |-> stored]

\* PluginLoader._load_plugin_class: [raised, events, loaded_modules]
_load_plugin_class(name, manifest, modules, fault) ==
    load_class(name, modules, fault, unique_module_name(manifest))

NoInstance == [name |-> None, status |-> None, config |-> None]

\* load_plugin without the check of validate()'s result
load_stage_unvalidated(fault, compat, cls) ==
    IF compat.raised # None THEN "version_raised"
    ELSE IF ~compat.ok THEN "version"
    ELSE IF cls.raised # None THEN "class"
    ELSE IF fault = "ctor_raises" THEN "instantiate"
    ELSE IF InitializeResult(fault) # "True" THEN "initialize"
    ELSE "return"

\* The step at which PluginLoader.load_plugin stops: "version_raised" (the
\* check itself raised), "version" (not compatible), "class"
\* (_load_plugin_class raised), "instantiate", "initialize", "validate", or
\* "return" for "return plugin_instance"
load_stage(fault, compat, cls) ==
    IF compat.raised # None THEN "version_raised"
    ELSE IF ~compat.ok THEN "version"
    ELSE IF cls.raised # None THEN "class"
    ELSE IF fault = "ctor_raises" THEN "instantiate"
    ELSE IF InitializeResult(fault) # "True" THEN "initialize"
    ELSE IF ValidateResult(fault) # "True" THEN "validate"
    ELSE "return"

\* the steps load_plugin takes up to the stage it stops at
load_events(name, config, fault, cls, stage) ==
    <<Ev("version_check", name, None)>> \o
    (IF stage \in {"version_raised", "version"} THEN <<>> ELSE
     cls.events \o
     (IF stage = "class" THEN <<>> ELSE
      <<Ev("instantiate", name, None)>> \o
      (IF stage = "instantiate" THEN <<>> ELSE
       <<Ev("status", name, "LOADING"),
         Ev("initialize", name, config),
         Ev("initialize_result", name, InitializeResult(fault))>> \o
       (IF stage = "initialize" THEN <<>> ELSE
        <<Ev("validate", name, ValidateResult(fault))>> \o
        (IF stage = "validate" THEN <<>> ELSE
         <<Ev("status", name, "LOADED")>>)))))

\* the status the last assignment to plugin_instance.status left
load_status(stage) ==
    IF stage = "return" THEN "LOADED" ELSE "LOADING"

load_outcome(name, config, modules, fault, compat, cls, stage) ==
    [raised |-> IF stage = "return" THEN None
                ELSE IF stage = "version_raised" THEN compat.raised
                ELSE "PluginLoadError",
     events |-> load_events(name, config, fault, cls, stage),
     loaded_modules |-> IF stage \in {"version_raised", "version"}
                        THEN modules ELSE cls.loaded_modules,
     instance |-> IF stage \in {"initialize", "validate", "return"}
                  THEN [name |-> name, status |-> load_status(stage),
                        config |-> config]
                  ELSE NoInstance]

load_steps(name, config, modules, fault, compat, cls) ==
    load_outcome(name, config, modules, fault, compat, cls,
                 load_stage(fault, compat, cls))

\* PluginLoader.load_plugin: [raised, events, loaded_modules, instance].
\* instance is the object plugin_class(manifest) created, with the status it
\* is left in, or NoInstance when none was created.
LoaderLoadPlugin(name, manifest, config, modules, fault) ==
    load_steps(name, config, modules, fault,
               Compatibility[RequiresOf(manifest)],
               _load_plugin_class(name, manifest, modules, fault))

(***************************************************************************)
(* loader.py: PluginManager.  A machine state ms threads what a call       *)
(* changes: loaded (loaded_plugins), modules (loaded_modules), events,     *)
(* raised (the exception in flight), failed (instances a failed load       *)
(* created and dropped).                                                   *)
(***************************************************************************)
\* d[k] = v on a dict held as a function
DictSet(d, k, v) == [x \in (DOMAIN d) \cup {k} |-> IF x = k THEN v ELSE d[x]]

\* del d[k]
DictDel(d, k) == [x \in (DOMAIN d) \ {k} |-> d[x]]

\* self.loaded_plugins[plugin_name] = plugin, or the exception of the
\* loader going up
Store(ms, name, r) ==
    IF r.raised # None
    THEN [ms EXCEPT !.raised = r.raised,
                    !.events = @ \o r.events,
                    !.modules = r.loaded_modules,
                    !.failed = IF r.instance = NoInstance THEN @
                               ELSE @ \cup {r.instance}]
    ELSE [ms EXCEPT !.events = @ \o r.events \o <<Ev("store", name, None)>>,
                    !.modules = r.loaded_modules,
                    !.loaded = DictSet(@, name, r.instance)]

\* plugin = self.loader.load_plugin(plugin_info, config)
\* self.loaded_plugins[plugin_name] = plugin
LoadAndStore(ms, cat, name, config, faults) ==
    Store(ms, name,
          LoaderLoadPlugin(name, cat[name], config, ms.modules, faults[name]))

\* load_plugin after its loop over the dependencies
LoadAfterDeps(after, cat, pcfg, faults, plugin_name, config) ==
    IF after.raised # None THEN after
    ELSE LoadAndStore(after, cat, plugin_name,
                      IF Truthy(config) THEN config
                      ELSE ConfigGet(pcfg, plugin_name, EmptyCfg),
                      faults)

RECURSIVE ManagerLoadPlugin(_, _, _, _, _, _, _, _), LoadDeps(_, _, _, _, _, _, _)
\* PluginManager.load_plugin after the discovered_plugins check; stack is
\* the chain of load_plugin calls in progress.  Re-entering a name that is
\* on the stack repeats the same calls without end until Python raises
\* RecursionError.
ManagerLoadPlugin(ms, cat, disc, pcfg, faults, plugin_name, config, stack) ==
    IF ms.raised # None THEN ms
    ELSE IF plugin_name \in DOMAIN ms.loaded THEN ms
    ELSE IF plugin_name \notin Range(disc)
    THEN [ms EXCEPT !.raised = "PluginLoadError", !.named = {plugin_name}]
    ELSE IF plugin_name \in stack
    THEN [ms EXCEPT !.raised = "RecursionError"]
    ELSE LoadAfterDeps(
            LoadDeps(ms, cat, disc, pcfg, faults,
                     cat[plugin_name].dependencies, stack \cup {plugin_name}),
            cat, pcfg, faults, plugin_name, config)

\* for dep in deps: if dep not in self.loaded_plugins: self.load_plugin(dep)
LoadDeps(ms, cat, disc, pcfg, faults, deps, stack) ==
    IF Len(deps) = 0 \/ ms.raised # None THEN ms
    ELSE LoadDeps(
            IF Head(deps) \notin DOMAIN ms.loaded
            THEN ManagerLoadPlugin(ms, cat, disc, pcfg, faults,
                                   Head(deps), None, stack)
            ELSE ms,
            cat, disc, pcfg, faults, Tail(deps), stack)

RECURSIVE LoadInOrder(_, _, _, _, _, _)
\* the loop "for plugin_name in load_order" of load_all_plugins
LoadInOrder(ms, cat, disc, pcfg, faults, load_order) ==
    IF Len(load_order) = 0 \/ ms.raised # None THEN ms
    ELSE LoadInOrder(
            IF Head(load_order) \notin Range(disc) THEN ms
            ELSE LoadAndStore(ms, cat, Head(load_order),
                              ConfigGet(pcfg, Head(load_order), EmptyCfg), faults),
            cat, disc, pcfg, faults, Tail(load_order))

RECURSIVE AddAll(_, _, _)
\* the loop "for plugin_info in self.discovered_plugins: add_plugin(...)"
AddAll(graph, cat, disc) ==
    IF Len(disc) = 0 THEN graph
    ELSE AddAll(add_plugin(graph, Head(disc), cat[Head(disc)].dependencies),
                cat, Tail(disc))

\* PluginManager.unload_plugin on a machine state
ManagerUnloadPlugin(ms, graph, plugin_name) ==
    IF ms.raised # None THEN ms
    ELSE IF plugin_name \notin DOMAIN ms.loaded THEN ms
    ELSE IF ~can_unload(graph, plugin_name)
    THEN [ms EXCEPT !.raised = "PluginLoadError",
                    !.named = Range(get_dependents(graph, plugin_name))]
    ELSE [ms EXCEPT !.events = @ \o <<Ev("cleanup", plugin_name, None),
                                      Ev("status", plugin_name, "UNLOADED"),
                                      Ev("del", plugin_name, None)>>,
                    !.loaded = DictDel(@, plugin_name)]

(***************************************************************************)
(* The state machine: one action per PluginManager operation.              *)
(***************************************************************************)
NoLoaded == [p \in {} |-> NoInstance]

\* the machine state a call starts from
Start == [loaded |-> loaded_plugins, modules |-> loaded_modules,
          events |-> <<>>, raised |-> None, named |-> {}, failed |-> {}]

Last(op, name, config, ms) ==
    [op |-> op, name |-> name, config |-> config, raised |-> ms.raised,
     named |-> ms.named, events |-> ms.events, failed |-> ms.failed,
     pre_loaded |-> loaded_plugins]

\* what a scan of the search path may find: all the plugin directories, or
\* all but one of them
Scans == {found \in SUBSET Plugins : Cardinality(Plugins \ found) <= 1}

\* what "if not self.discovered_plugins: self.discover_plugins()" may find
Rescan == IF discovered_plugins = <<>> THEN Scans ELSE {{}}

\* the results resolve() can return, over the orders in which a run may
\* iterate the set available_plugins
ResolveResults(graph, avail) ==
    {resolve(graph, avail, iter_order) : iter_order \in Perms(avail)}

Init ==
    /\ catalog \in Catalogs
    /\ discovered_plugins = <<>>
    /\ dependency_graph = <<>>
    /\ available_plugins = {}
    /\ loaded_plugins = NoLoaded
    /\ plugin_configs = NoConfigs
    /\ loaded_modules = {}
    /\ calls = 0
    /\ threads = <<>>
    /\ last = Last("init", None, None, Start)

\* a discovery that imports the entry point module of every plugin it finds
discover_plugins_importing ==
    /\ calls < MaxCalls
    /\ calls' = calls + 1
    /\ \E found \in Scans :
           /\ discovered_plugins' = DirList(found)
           /\ loaded_modules' = loaded_modules
                  \cup {unique_module_name(catalog[p]) : p \in found}
           /\ last' = Last("discover_plugins", None, None, Start)
           /\ UNCHANGED <<threads, catalog, dependency_graph, available_plugins,
                          loaded_plugins, plugin_configs>>

\* PluginManager.discover_plugins
discover_plugins ==
    /\ calls < MaxCalls
    /\ calls' = calls + 1
    /\ \E found \in Scans :
           /\ discovered_plugins' = DirList(found)
           /\ last' = Last("discover_plugins", None, None, Start)
           /\ UNCHANGED <<threads, catalog, dependency_graph, available_plugins,
                          loaded_plugins, plugin_configs, loaded_modules>>

\* PluginManager.load_all_plugins
load_all_plugins ==
    /\ calls < MaxCalls
    /\ calls' = calls + 1
    /\ \E configs \in ConfigArgs, found \in Rescan :
       \E pcfg \in {IF DOMAIN configs # {} THEN configs ELSE plugin_configs},
          disc \in {IF discovered_plugins = <<>> THEN DirList(found)
                    ELSE discovered_plugins} :
       \E graph \in {AddAll(dependency_graph, catalog, disc)},
          avail \in {available_plugins \cup Range(disc)} :
       \E res \in ResolveResults(graph, avail) :
       \E ms \in IF res.raised # None
                 THEN {[Start EXCEPT !.raised = "PluginLoadError",
                                     !.named = {res.plugin, res.dep} \ {None}]}
                 ELSE {LoadInOrder(Start, catalog, disc, pcfg, faults,
                                   res.load_order) : faults \in FaultMaps} :
           /\ plugin_configs' = pcfg
           /\ discovered_plugins' = disc
           /\ dependency_graph' = graph
           /\ available_plugins' = avail
           /\ loaded_plugins' = ms.loaded
           /\ loaded_modules' = ms.modules
           /\ last' = Last("load_all_plugins", None, configs, ms)
           /\ UNCHANGED <<threads, catalog>>

\* PluginManager.load_plugin
load_plugin ==
    /\ calls < MaxCalls
    /\ calls' = calls + 1
    /\ \E plugin_name \in Plugins, config \in ConfigInputs :
       \E found \in (IF plugin_name \in DOMAIN loaded_plugins
                     THEN {{}} ELSE Rescan) :
       \E disc \in {IF plugin_name \in DOMAIN loaded_plugins
                       \/ discovered_plugins # <<>>
                    THEN discovered_plugins ELSE DirList(found)} :
       \E ms \in {ManagerLoadPlugin(Start, catalog, disc, plugin_configs,
                                    faults, plugin_name, config, {}) :
                  faults \in FaultMaps} :
           /\ discovered_plugins' = disc
           /\ loaded_plugins' = ms.loaded
           /\ loaded_modules' = ms.modules
           /\ last' = Last("load_plugin", plugin_name, config, ms)
           /\ UNCHANGED <<threads, catalog, dependency_graph, available_plugins,
                          plugin_configs>>

\* PluginManager.unload_plugin
unload_plugin ==
    /\ calls < MaxCalls
    /\ calls' = calls + 1
    /\ \E plugin_name \in Plugins :
       \E ms \in {ManagerUnloadPlugin(Start, dependency_graph, plugin_name)} :
           /\ loaded_plugins' = ms.loaded
           /\ last' = Last("unload_plugin", plugin_name, None, ms)
           /\ UNCHANGED <<threads, catalog, discovered_plugins, dependency_graph,
                          available_plugins, plugin_configs, loaded_modules>>

\* PluginManager.reload_plugin
reload_plugin ==
    /\ calls < MaxCalls
    /\ calls' = calls + 1
    /\ \E plugin_name \in Plugins :
       \E config \in {ConfigGet(plugin_configs, plugin_name, None)},
          un \in {ManagerUnloadPlugin(Start, dependency_graph, plugin_name)} :
       \E found \in (IF un.raised # None THEN {{}} ELSE Rescan) :
       \E disc \in {IF un.raised # None \/ discovered_plugins # <<>>
                    THEN discovered_plugins ELSE DirList(found)} :
       \E ms \in {ManagerLoadPlugin(un, catalog, disc, plugin_configs,
                                    faults, plugin_name, config, {}) :
                  faults \in FaultMaps} :
           /\ discovered_plugins' = disc
           /\ loaded_plugins' = ms.loaded
           /\ loaded_modules' = ms.modules
           /\ last' = Last("reload_plugin", plugin_name, None, ms)
           /\ UNCHANGED <<threads, catalog, dependency_graph, available_plugins,
                          plugin_configs>>

Next ==
    \/ discover_plugins
    \/ load_all_plugins
    \/ load_plugin
    \/ unload_plugin
    \/ reload_plugin

Spec == Init /\ [][Next]_vars

(***************************************************************************)
(* A DependencyResolver on its own: plugins are registered one by one with *)
(* add_plugin and the graph is resolved at any time.                       *)
(***************************************************************************)
\* the number of add_plugin calls in a run
MaxRegistrations == 3

\* the longest dependency list a registration declares
MaxDeps == 2

\* the dependency lists a registration may declare: up to MaxDeps plugins,
\* each named once
DepLists ==
    UNION {{deps \in [1..n -> Plugins] : Cardinality(Range(deps)) = n} :
           n \in 0..MaxDeps}

\* the most recent call: for resolve(), its result and the registrations
\* it started from
ResolverLast(op, res, iter_order, graph, available) ==
    [op |-> op, raised |-> res.raised, plugin |-> res.plugin, dep |-> res.dep,
     load_order |-> res.load_order, iter_order |-> iter_order,
     pre_graph |-> graph, pre_available |-> available]

NoResult == [raised |-> None, plugin |-> None, dep |-> None, load_order |-> <<>>]

\* DependencyResolver.__init__
InitResolver ==
    /\ catalog = << >>
    /\ discovered_plugins = <<>>
    /\ dependency_graph = <<>>
    /\ available_plugins = {}
    /\ loaded_plugins = NoLoaded
    /\ plugin_configs = NoConfigs
    /\ loaded_modules = {}
    /\ calls = 0
    /\ threads = <<>>
    /\ last = ResolverLast("init", NoResult, <<>>, <<>>, {})

\* DependencyResolver.add_plugin(plugin_name, dependencies)
call_add_plugin ==
    /\ calls < MaxRegistrations
    /\ calls' = calls + 1
    /\ \E plugin_name \in Plugins, dependencies \in DepLists :
           /\ dependency_graph' = add_plugin(dependency_graph, plugin_name,
                                             dependencies)
           /\ available_plugins' = available_plugins \cup {plugin_name}
           /\ last' = ResolverLast("add_plugin", NoResult, <<>>, <<>>, {})
    /\ UNCHANGED <<threads, catalog, discovered_plugins, loaded_plugins, plugin_configs,
                   loaded_modules>>

\* DependencyResolver.resolve()
call_resolve ==
    /\ \E iter_order \in Perms(available_plugins) :
           last' = ResolverLast("resolve",
                       resolve(dependency_graph, available_plugins, iter_order),
                       iter_order, dependency_graph, available_plugins)
    /\ UNCHANGED <<threads, catalog, discovered_plugins, dependency_graph,
                   available_plugins, loaded_plugins, plugin_configs,
                   loaded_modules, calls>>

\* the most recent call when it was get_unload_order(plugins_to_unload)
UnloadOrderLast(res, plugins_to_unload) ==
    [op |-> "get_unload_order", raised |-> res.raised, plugin |-> res.plugin,
     dep |-> res.dep, load_order |-> res.load_order, iter_order |-> <<>>,
     pre_graph |-> dependency_graph, pre_available |-> available_plugins,
     plugins_to_unload |-> plugins_to_unload]

\* DependencyResolver.get_unload_order(plugins_to_unload), for the lists
\* that name some of the plugins once each
call_get_unload_order ==
    /\ \E S \in SUBSET Plugins :
       \E iter_order \in Perms(S) :
           last' = UnloadOrderLast(
                       get_unload_order(dependency_graph, DirList(S), iter_order),
                       DirList(S))
    /\ UNCHANGED <<threads, catalog, discovered_plugins, dependency_graph,
                   available_plugins, loaded_plugins, plugin_configs,
                   loaded_modules, calls>>

NextResolver == call_add_plugin \/ call_resolve \/ call_get_unload_order

SpecResolver == InitResolver /\ [][NextResolver]_vars

(***************************************************************************)
(* version.py on its own: versions are parsed from text and compared, and  *)
(* a VersionChecker of the default host version checks requirements.       *)
(***************************************************************************)
\* version strings that parse
VersionStrings ==
    {<<"1", ".", "0", ".", "0">>,
     <<"1", ".", "0", ".", "0", "+", "b">>,
     <<"1", ".", "0", ".", "0", "-", "a">>,
     <<"1", ".", "0", ".", "0", "-", "b">>,
     <<"1", ".", "0", ".", "0", "-", "a", ".", "1">>,
     <<"1", ".", "9", ".", "0">>,
     <<"1", ".", "1", "0", ".", "0">>,
     <<"2", ".", "0", ".", "0">>,
     <<"0", ".", "9", ".", "0">>}

\* text that is no version, and the one that is with leading zero,
\* prerelease and metadata
OtherStrings ==
    {<<>>,
     <<"1", ".", "0">>,
     <<"1", ".", "0", ".", "0", ".", "0">>,
     <<"a", ".", "b", ".", "c">>,
     <<"1", ".", "0", ".", "0", "-">>,
     <<"1", ".", "0", ".", "0", "+">>,
     <<"0", "1", ".", "0", ".", "0", "-", "r", "c", "+", "b">>}

\* the values of requires_version tried: text, and null
RequiredValues ==
    {PyStr(chars) : chars \in VersionStrings \cup OtherStrings} \cup {PyNone}

\* check_plugin_compatibility tabulated over these values
RequiredChecks ==
    [required_version \in RequiredValues
        |-> check_plugin_compatibility(required_version)]

\* SemanticVersion(text) for each of the version strings
ParsedVersions == [chars \in VersionStrings |-> SemanticVersion(PyStr(chars))]

Parsed(chars) == ParsedVersions[chars]

\* the results of the five comparison operators on every pair of vs
Comparisons(vs) ==
    [op |-> "compare", versions |-> vs,
     eq |-> [i \in DOMAIN vs |-> [j \in DOMAIN vs |-> VersionEq(vs[i], vs[j])]],
     lt |-> [i \in DOMAIN vs |-> [j \in DOMAIN vs |-> VersionLt(vs[i], vs[j])]],
     le |-> [i \in DOMAIN vs |-> [j \in DOMAIN vs |-> VersionLe(vs[i], vs[j])]],
     gt |-> [i \in DOMAIN vs |-> [j \in DOMAIN vs |-> VersionGt(vs[i], vs[j])]],
     ge |-> [i \in DOMAIN vs |-> [j \in DOMAIN vs |-> VersionGe(vs[i], vs[j])]]]

InitVersion ==
    /\ catalog = << >>
    /\ discovered_plugins = <<>>
    /\ dependency_graph = <<>>
    /\ available_plugins = {}
    /\ loaded_plugins = NoLoaded
    /\ plugin_configs = NoConfigs
    /\ loaded_modules = {}
    /\ calls = 0
    /\ threads = <<>>
    /\ last = [op |-> "init"]

\* three versions are parsed and compared with ==, <, <=, >, >=
call_compare ==
    /\ \E a, b, c \in VersionStrings :
           last' = Comparisons(<<Parsed(a), Parsed(b), Parsed(c)>>)
    /\ UNCHANGED <<threads, catalog, discovered_plugins, dependency_graph,
                   available_plugins, loaded_plugins, plugin_configs,
                   loaded_modules, calls>>

\* v.is_compatible_with(required_version)
call_is_compatible_with ==
    /\ \E v, r \in VersionStrings :
           last' = [op |-> "is_compatible_with", v |-> Parsed(v),
                    required_version |-> Parsed(r),
                    result |-> is_compatible_with(Parsed(v), Parsed(r))]
    /\ UNCHANGED <<threads, catalog, discovered_plugins, dependency_graph,
                   available_plugins, loaded_plugins, plugin_configs,
                   loaded_modules, calls>>

\* VersionChecker("1.0.0").check_plugin_compatibility(name, required_version)
call_check_plugin_compatibility ==
    /\ \E required_version \in RequiredValues :
       \E res \in {RequiredChecks[required_version]} :
           last' = [op |-> "check_plugin_compatibility",
                    required_version |-> required_version,
                    raised |-> res.raised, ok |-> res.ok]
    /\ UNCHANGED <<threads, catalog, discovered_plugins, dependency_graph,
                   available_plugins, loaded_plugins, plugin_configs,
                   loaded_modules, calls>>

\* the system_version values a PluginManager is constructed with
HostVersions ==
    {<<"0", ".", "0", ".", "0", "-", "a">>, <<"0", ".", "0", ".", "0">>,
     <<"0", ".", "9", ".", "0">>, <<"1", ".", "0", ".", "0">>,
     <<"2", ".", "0", ".", "0">>}

\* PluginLoader(VersionChecker(host)).load_plugin(plugin_info, {}) on the
\* plugins a (requires 1.0.0) and c (names no version) of CatVersions, with
\* nothing cached
call_load_plugin_on_host ==
    /\ \E host \in HostVersions, p \in {"a", "c"} :
       \E res \in {load_steps(p, EmptyCfg, {}, "none",
                       check_required(SemanticVersion(PyStr(host)),
                           SemanticVersion(RequiresOf(CatVersions[p]))),
                       _load_plugin_class(p, CatVersions[p], {}, "none"))} :
           last' = [op |-> "load_plugin", system_version |-> PyStr(host),
                    manifest |-> CatVersions[p],
                    required_version |-> RequiresOf(CatVersions[p]),
                    raised |-> res.raised, events |-> res.events]
    /\ UNCHANGED <<threads, catalog, discovered_plugins, dependency_graph,
                   available_plugins, loaded_plugins, plugin_configs,
                   loaded_modules, calls>>

NextVersion ==
    \/ call_compare
    \/ call_is_compatible_with
    \/ call_check_plugin_compatibility
    \/ call_load_plugin_on_host

SpecVersion == InitVersion /\ [][NextVersion]_vars

(***************************************************************************)
(* manifest.py: ManifestValidator.  A manifest maps field names to Python  *)
(* values; a field that is not in the mapping has the value Absent.  An    *)
(* error entry tells the check that made it and what it is about.          *)
(***************************************************************************)
Absent == [t |-> "absent", v |-> <<>>]

\* a number other than 0
PyInt == [t |-> "int", v |-> <<>>]

PyList(items) == [t |-> "list", v |-> items]

\* ManifestSchema.REQUIRED_FIELDS
REQUIRED_FIELDS == <<"name", "version", "type", "entry_point">>

\* ManifestSchema.VALID_TYPES
VALID_TYPES ==
    {<<"h", "o", "o", "k">>,
     <<"v", "a", "l", "i", "d", "a", "t", "o", "r">>,
     <<"q", "u", "a", "l", "i", "t", "y", "_", "c", "h", "e", "c", "k">>,
     <<"c", "l", "i", "_", "u", "t", "i", "l", "i", "t", "y">>,
     <<"i", "n", "t", "e", "g", "r", "a", "t", "i", "o", "n">>,
     <<"c", "u", "s", "t", "o", "m">>}

\* manifest.get(field): None when the field is not there
FieldGet(manifest, field) ==
    IF manifest[field].t = "absent" THEN PyNone ELSE manifest[field]

\* manifest.get(field, default)
FieldGetOr(manifest, field, default) ==
    IF manifest[field].t = "absent" THEN default ELSE manifest[field]

\* Python's "not value" for the values of the model
Falsy(value) ==
    value.t = "NoneType" \/ (value.t \in {"str", "list"} /\ value.v = <<>>)

Err(check, about) == [check |-> check, about |-> about]

\* self.errors.append(...) unless an earlier check raised
Report(vs, check, about) ==
    [vs EXCEPT !.errors = Append(@, Err(check, about))]

\* a check that is re.match(pattern, value): TypeError unless value is a str
MatchCheck(vs, value, matches, check) ==
    IF vs.raised # None \/ Falsy(value) THEN vs
    ELSE IF value.t # "str" THEN [vs EXCEPT !.raised = "TypeError"]
    ELSE IF matches THEN vs
    ELSE Report(vs, check, "")

RECURSIVE _validate_required_fields(_, _, _)
\* ManifestValidator._validate_required_fields over what is left of
\* REQUIRED_FIELDS
_validate_required_fields(vs, manifest, fields) ==
    IF Len(fields) = 0 THEN vs
    ELSE _validate_required_fields(
            IF manifest[Head(fields)].t = "absent"
            THEN Report(vs, "required", Head(fields)) ELSE vs,
            manifest, Tail(fields))

NameChars == Digits \cup {"a", "b", "c", "r", "_", "-"}

\* ManifestValidator._validate_name: ^[a-z0-9_-]+$
_validate_name(vs, name) ==
    MatchCheck(vs, name, Range(name.v) \subseteq NameChars, "name")

\* ManifestValidator._validate_version: the pattern of SemanticVersion
_validate_version(vs, version) ==
    MatchCheck(vs, version,
               version.t = "str" /\ SemanticVersion(version).raised = None,
               "version")

\* ManifestValidator._validate_type
_validate_type(vs, plugin_type) ==
    IF vs.raised # None \/ Falsy(plugin_type) THEN vs
    ELSE IF plugin_type.t = "str" /\ plugin_type.v \in VALID_TYPES THEN vs
    ELSE Report(vs, "type", "")

EntryPointChars ==
    Digits \cup {"a", "b", "c", "r", "m", "A", "P", "_", ".", ":"}

\* ManifestValidator._validate_entry_point: ^[a-zA-Z0-9_.:]+$
_validate_entry_point(vs, entry_point) ==
    MatchCheck(vs, entry_point, Range(entry_point.v) \subseteq EntryPointChars,
               "entry_point")

RECURSIVE dependency_items(_, _)
\* for dep in dependencies: an entry for each dep that is not a str
dependency_items(vs, deps) ==
    IF Len(deps) = 0 THEN vs
    ELSE dependency_items(
            IF Head(deps).t # "str" THEN Report(vs, "dependencies", "item")
            ELSE vs,
            Tail(deps))

\* ManifestValidator._validate_dependencies
validate_dependencies(vs, dependencies) ==
    IF vs.raised # None THEN vs
    ELSE IF dependencies.t # "list" THEN Report(vs, "dependencies", "list")
    ELSE dependency_items(vs, dependencies.v)

\* ^\d+\.\d+\.\d+$
IsPlainVersion(chars) ==
    /\ Len(Split(chars, ".")) = 3
    /\ \A i \in 1..3 : IsNumber(Split(chars, ".")[i])

\* ManifestValidator._validate_requires_version
_validate_requires_version(vs, version) ==
    MatchCheck(vs, version, version.t = "str" /\ IsPlainVersion(version.v),
               "requires_version")

\* the checks of validate() in their order, from the emptied error list
run_checks(manifest) ==
    _validate_requires_version(
      validate_dependencies(
        _validate_entry_point(
          _validate_type(
            _validate_version(
              _validate_name(
                _validate_required_fields(
                    [errors |-> <<>>, raised |-> None], manifest,
                    REQUIRED_FIELDS),
                FieldGet(manifest, "name")),
              FieldGet(manifest, "version")),
            FieldGet(manifest, "type")),
          FieldGet(manifest, "entry_point")),
        FieldGetOr(manifest, "dependencies", PyList(<<>>))),
      FieldGetOr(manifest, "requires_version",
                 PyStr(<<"0", ".", "0", ".", "0">>)))

\* the manifests tried
Manifests ==
    [name : {Absent, PyStr(<<"a">>), PyStr(<<"A">>), PyInt},
     version : {Absent, Req100, PyStr(<<"1", ".", "0">>)},
     type : {PyStr(<<"h", "o", "o", "k">>), PyStr(<<"a">>)},
     entry_point : {PyStr(<<"m", ".", "P">>), PyStr(<<"m", " ", "P">>)},
     dependencies : {Absent, PyList(<<PyStr(<<"a">>)>>),
                     PyList(<<PyInt, PyStr(<<"a">>), PyInt>>), PyStr(<<"a">>)},
     requires_version : {Absent, PyStr(<<"1", ".", "0", ".", "0", "-", "a">>),
                         PyNone}]

\* run_checks tabulated over the manifests
Checked == [manifest \in Manifests |-> run_checks(manifest)]

\* ManifestValidator.validate on a validator whose self.errors is errors:
\* [raised, errors (self.errors afterwards), result]
validate(errors, manifest) ==
    [raised |-> Checked[manifest].raised,
     errors |-> Checked[manifest].errors,
     result |-> Checked[manifest].raised = None
                /\ Len(Checked[manifest].errors) = 0]

\* the number of validate() calls on one validator
MaxValidations == 2

\* the most recent call on the validator; errors is its self.errors
ValidatorLast(op, manifest, res) ==
    [op |-> op, manifest |-> manifest, raised |-> res.raised,
     result |-> res.result, errors |-> res.errors]

\* ManifestValidator.__init__
InitManifest ==
    /\ catalog = << >>
    /\ discovered_plugins = <<>>
    /\ dependency_graph = <<>>
    /\ available_plugins = {}
    /\ loaded_plugins = NoLoaded
    /\ plugin_configs = NoConfigs
    /\ loaded_modules = {}
    /\ calls = 0
    /\ threads = <<>>
    /\ last = ValidatorLast("init", Absent,
                            [raised |-> None, result |-> TRUE, errors |-> <<>>])

\* validator.validate(manifest)
call_validate ==
    /\ calls < MaxValidations
    /\ calls' = calls + 1
    /\ \E manifest \in Manifests :
           last' = ValidatorLast("validate", manifest,
                                 validate(last.errors, manifest))
    /\ UNCHANGED <<threads, catalog, discovered_plugins, dependency_graph,
                   available_plugins, loaded_plugins, plugin_configs,
                   loaded_modules>>

NextManifest == call_validate

SpecManifest == InitManifest /\ [][NextManifest]_vars

(***************************************************************************)
(* loader.py: PluginDiscovery on its own.  A scan finds in each plugin     *)
(* directory no manifest file, a file that does not parse, a file that     *)
(* holds a JSON array, or a file that holds a mapping.                     *)
(***************************************************************************)
DirKinds == {"no_manifest", "unparsable", "array", "valid", "invalid_version",
             "number_name"}

\* the mapping the manifest file of a directory of that kind holds
ManifestOf(kind) ==
    [name |-> IF kind = "number_name" THEN PyInt ELSE PyStr(<<"a">>),
     version |-> IF kind = "invalid_version" THEN PyStr(<<"1", ".", "0">>)
                 ELSE Req100,
     type |-> PyStr(<<"h", "o", "o", "k">>),
     entry_point |-> PyStr(<<"m", ".", "P">>),
     dependencies |-> Absent, requires_version |-> Absent]

\* PluginDiscovery._load_plugin_info: [raised, info], info FALSE for None.
\* validate() of an array gets as far as manifest.get, which no list has
_load_plugin_info ==
    [kind \in DirKinds |->
        IF kind \in {"no_manifest", "unparsable"}
        THEN [raised |-> None, info |-> FALSE]
        ELSE IF kind = "array"
        THEN [raised |-> "AttributeError", info |-> FALSE]
        ELSE [raised |-> validate(<<>>, ManifestOf(kind)).raised,
              info |-> validate(<<>>, ManifestOf(kind)).result]]

RECURSIVE discover(_, _, _)
\* PluginDiscovery.discover over what is left of search_path.iterdir():
\* [raised, discovered]
discover(dirs, contents, discovered) ==
    IF Len(dirs) = 0 THEN [raised |-> None, discovered |-> discovered]
    ELSE IF _load_plugin_info[contents[Head(dirs)]].raised # None
    THEN [raised |-> _load_plugin_info[contents[Head(dirs)]].raised,
          discovered |-> <<>>]
    ELSE discover(Tail(dirs), contents,
                  IF _load_plugin_info[contents[Head(dirs)]].info
                  THEN Append(discovered, Head(dirs)) ELSE discovered)

InitDiscovery ==
    /\ catalog = << >>
    /\ discovered_plugins = <<>>
    /\ dependency_graph = <<>>
    /\ available_plugins = {}
    /\ loaded_plugins = NoLoaded
    /\ plugin_configs = NoConfigs
    /\ loaded_modules = {}
    /\ calls = 0
    /\ threads = <<>>
    /\ last = [op |-> "init"]

\* a scan of the directories a, b, c holding contents
call_discover ==
    /\ \E contents \in [Plugins -> DirKinds] :
       \E res \in {discover(AllNames, contents, <<>>)} :
           /\ discovered_plugins' = IF res.raised = None THEN res.discovered
                                    ELSE discovered_plugins
           /\ last' = [op |-> "discover", contents |-> contents,
                       raised |-> res.raised, discovered |-> res.discovered]
    /\ UNCHANGED <<threads, catalog, dependency_graph, available_plugins,
                   loaded_plugins, plugin_configs, loaded_modules, calls>>

SpecDiscovery == InitDiscovery /\ [][call_discover]_vars

(***************************************************************************)
(* config.py: PluginConfig.  A configuration tree is a mapping from keys   *)
(* (strings, as sequences of characters) to values; a value is a number,   *)
(* an array or a mapping again.                                            *)
(***************************************************************************)
Dict(items) == [t |-> "dict", v |-> items]

\* the values that are not mappings: a number and an array
Leaves == {PyInt, PyList(<<PyInt>>)}

\* the mappings from some of the keys a, b to the values of vals
DictsOver(vals) ==
    {Dict(items) : items \in UNION {[keys -> vals] :
                                       keys \in SUBSET {<<"a">>, <<"b">>}}}

\* the config_data a PluginConfig is constructed with: mappings nested up to
\* two levels
ConfigTrees == DictsOver(Leaves \cup DictsOver(Leaves))

\* the updates tried: the trees that mention no other top-level key than a
Partials == {tree \in ConfigTrees : DOMAIN tree.v \subseteq {<<"a">>}}

\* the key arguments tried: "a", "b", "a.b", "b.a"
KeyPaths == {<<"a">>, <<"b">>, <<"a", ".", "b">>, <<"b", ".", "a">>}

RECURSIVE get(_, _, _)
\* PluginConfig.get: the loop over keys = key.split('.'), value the object
\* reached so far
get(value, keys, default) ==
    IF Len(keys) = 0 THEN value
    ELSE IF value.t = "dict" /\ Head(keys) \in DOMAIN value.v
    THEN get(value.v[Head(keys)], Tail(keys), default)
    ELSE default

RECURSIVE set(_, _, _)
\* PluginConfig.set: the loop over keys[:-1] and the final assignment, config
\* the object reached so far.  "k not in config" and the item assignments
\* raise TypeError on a number and on an array; the mappings created before
\* that stay.  The result is [raised, config]
set(config, keys, value) ==
    IF config.t # "dict" THEN [raised |-> "TypeError", config |-> config]
    ELSE IF Len(keys) = 1
    THEN [raised |-> None,
          config |-> Dict(DictSet(config.v, Head(keys), value))]
    ELSE [raised |-> set(get(config, <<Head(keys)>>, Dict(<<>>)),
                         Tail(keys), value).raised,
          config |-> Dict(DictSet(config.v, Head(keys),
                        set(get(config, <<Head(keys)>>, Dict(<<>>)),
                            Tail(keys), value).config))]

\* dict.update: every value of source replaces that of target
_deep_update_replacing(target, source) ==
    [key \in DOMAIN target \cup DOMAIN source |->
        IF key \in DOMAIN source THEN source[key] ELSE target[key]]

RECURSIVE _deep_update(_, _)
\* PluginConfig._deep_update on the items of two mappings: the items target
\* has after the loop over source.items()
_deep_update(target, source) ==
    [key \in DOMAIN target \cup DOMAIN source |->
        IF key \notin DOMAIN source THEN target[key]
        ELSE IF /\ source[key].t = "dict"
                /\ key \in DOMAIN target
                /\ target[key].t = "dict"
        THEN Dict(_deep_update(target[key].v, source[key].v))
        ELSE source[key]]

\* the most recent call on the PluginConfig; pre is its config_data before
\* the call and config_data the one after it
ConfigLast(op, key, value, raised, config_data) ==
    [op |-> op, key |-> key, value |-> value, raised |-> raised,
     pre |-> last.config_data, config_data |-> config_data]

\* PluginConfig(plugin_name, config_data)
InitConfig ==
    /\ catalog = << >>
    /\ discovered_plugins = <<>>
    /\ dependency_graph = <<>>
    /\ available_plugins = {}
    /\ loaded_plugins = NoLoaded
    /\ plugin_configs = NoConfigs
    /\ loaded_modules = {}
    /\ calls = 0
    /\ threads = <<>>
    /\ \E config_data \in ConfigTrees :
           last = [op |-> "init", key |-> <<>>, value |-> Absent,
                   raised |-> None, pre |-> config_data,
                   config_data |-> config_data]

\* config.get(key): value is what it returns
call_get ==
    /\ \E key \in KeyPaths :
           last' = ConfigLast("get", key,
                              get(last.config_data, Split(key, "."), Absent),
                              None, last.config_data)
    /\ UNCHANGED <<threads, catalog, discovered_plugins, dependency_graph,
                   available_plugins, loaded_plugins, plugin_configs,
                   loaded_modules, calls>>

\* config.set(key, value)
call_set ==
    /\ \E key \in KeyPaths, value \in Leaves :
       \E res \in {set(last.config_data, Split(key, "."), value)} :
           last' = ConfigLast("set", key, value, res.raised, res.config)
    /\ UNCHANGED <<threads, catalog, discovered_plugins, dependency_graph,
                   available_plugins, loaded_plugins, plugin_configs,
                   loaded_modules, calls>>

\* config.update(updates)
call_update ==
    /\ \E updates \in Partials :
           last' = ConfigLast("update", <<>>, updates, None,
                              Dict(_deep_update(last.config_data.v, updates.v)))
    /\ UNCHANGED <<threads, catalog, discovered_plugins, dependency_graph,
                   available_plugins, loaded_plugins, plugin_configs,
                   loaded_modules, calls>>

NextConfig == call_get \/ call_set \/ call_update

SpecConfig == InitConfig /\ [][NextConfig]_vars

(***************************************************************************)
(* loader.py: two threads of a concurrent host inside _load_plugin_class   *)
(* of one PluginLoader.  A thread is at "lookup" (before the test of the   *)
(* cache), at "exec" (the key was not in the cache), at "insert" (the      *)
(* module was executed) or at "done"; executed counts its exec_module      *)
(* calls.  The host either runs the lines from the test to the insertion   *)
(* as one atomic region (last.atomic) or lets the threads interleave.      *)
(***************************************************************************)
Threads == {1, 2}

\* the test of a cache that never holds the key
in_loaded_modules_never(modules, key) == FALSE

\* "unique_module_name not in self.loaded_modules", negated
in_loaded_modules(modules, key) == key \in modules

\* the cache key of the load thread t makes
KeyOf(t) == unique_module_name(catalog[threads[t].plugin])

InitConcurrent ==
    /\ catalog = CatDiamond
    /\ discovered_plugins = <<>>
    /\ dependency_graph = <<>>
    /\ available_plugins = {}
    /\ loaded_plugins = NoLoaded
    /\ plugin_configs = NoConfigs
    /\ loaded_modules = {}
    /\ calls = 0
    /\ threads \in [Threads -> [pc : {"lookup"}, plugin : Plugins,
                                executed : {0}]]
    /\ last \in [op : {"init"}, thread : {0}, atomic : BOOLEAN]

\* thread t runs the lines from the test of the cache to the insertion with
\* no step of the other thread in between
load_in_atomic_region(t) ==
    /\ last.atomic
    /\ threads[t].pc = "lookup"
    /\ IF in_loaded_modules(loaded_modules, KeyOf(t))
       THEN /\ threads' = [threads EXCEPT ![t].pc = "done"]
            /\ UNCHANGED loaded_modules
       ELSE /\ threads' = [threads EXCEPT ![t].pc = "done",
                                          ![t].executed = @ + 1]
            /\ loaded_modules' = loaded_modules \cup {KeyOf(t)}
    /\ last' = [last EXCEPT !.op = "load_in_atomic_region", !.thread = t]
    /\ UNCHANGED <<catalog, discovered_plugins, dependency_graph,
                   available_plugins, loaded_plugins, plugin_configs, calls>>

\* if unique_module_name not in self.loaded_modules: ... else: module = ...
cache_lookup(t) ==
    /\ ~last.atomic
    /\ threads[t].pc = "lookup"
    /\ threads' = [threads EXCEPT ![t].pc =
                      IF in_loaded_modules(loaded_modules, KeyOf(t))
                      THEN "done" ELSE "exec"]
    /\ last' = [last EXCEPT !.op = "cache_lookup", !.thread = t]
    /\ UNCHANGED <<catalog, discovered_plugins, dependency_graph,
                   available_plugins, loaded_plugins, plugin_configs,
                   loaded_modules, calls>>

\* spec.loader.exec_module(module)
exec_module(t) ==
    /\ threads[t].pc = "exec"
    /\ threads' = [threads EXCEPT ![t].pc = "insert", ![t].executed = @ + 1]
    /\ last' = [last EXCEPT !.op = "exec_module", !.thread = t]
    /\ UNCHANGED <<catalog, discovered_plugins, dependency_graph,
                   available_plugins, loaded_plugins, plugin_configs,
                   loaded_modules, calls>>

\* self.loaded_modules[unique_module_name] = module
cache_insert(t) ==
    /\ threads[t].pc = "insert"
    /\ threads' = [threads EXCEPT ![t].pc = "done"]
    /\ loaded_modules' = loaded_modules \cup {KeyOf(t)}
    /\ last' = [last EXCEPT !.op = "cache_insert", !.thread = t]
    /\ UNCHANGED <<catalog, discovered_plugins, dependency_graph,
                   available_plugins, loaded_plugins, plugin_configs, calls>>

NextConcurrent ==
    \E t \in Threads :
        \/ load_in_atomic_region(t)
        \/ cache_lookup(t)
        \/ exec_module(t)
        \/ cache_insert(t)

SpecConcurrent == InitConcurrent /\ [][NextConcurrent]_vars

(***************************************************************************)
(* Vocabulary of the properties                                            *)
(***************************************************************************)
\* p declares d as a dependency in its manifest
Declares(p, d) == d \in Range(catalog[p].dependencies)

\* the plugins of the loaded set `loaded` that declare d, other than d
LoadedDependents(d, loaded) ==
    {p \in DOMAIN loaded : p # d /\ Declares(p, d)}

RECURSIVE Reach(_, _)
\* what is reachable from the set S along declared dependencies
Reach(S, n) ==
    IF n = 0 THEN S
    ELSE Reach(S \cup UNION {Range(catalog[p].dependencies) : p \in S \cap Plugins},
               n - 1)

\* the transitive dependencies of p
TransitiveDeps(p) == Reach(Range(catalog[p].dependencies), Cardinality(Plugins))

\* the call made an entry ev in its log
Logged(ev) == ev \in Range(last.events)

\* the positions of the log at which step e was taken on plugin p
Positions(e, p) ==
    {i \in DOMAIN last.events : last.events[i].e = e /\ last.events[i].p = p}

\* the steps the call took to load p, a status change shown as the status
LoadSteps(p) ==
    LET log == SelectSeq(last.events,
                   LAMBDA ev : /\ ev.p = p
                               /\ ev.e \notin {"cleanup", "del"}
                               /\ ~(ev.e = "status" /\ ev.v = "UNLOADED"))
    IN  [i \in DOMAIN log |-> IF log[i].e = "status" THEN log[i].v ELSE log[i].e]

IsPrefix(s, t) == Len(s) <= Len(t) /\ s = SubSeq(t, 1, Len(s))

\* the plugin whose load made the call raise, None when no load did
FailedPlugin ==
    IF last.raised # None /\ last.events # <<>>
       /\ last.events[Len(last.events)].e \notin {"store", "del"}
    THEN last.events[Len(last.events)].p ELSE None

(***************************************************************************)
(* C1: if D is loaded and another loaded plugin declares D as a            *)
(* dependency, unload_plugin(D) raises PluginLoadError naming that         *)
(* dependent, does not call cleanup() on D and leaves D loaded, however    *)
(* the plugins were loaded.                                                *)
(***************************************************************************)
C1_UnloadOfDependencyRefused ==
    (/\ last.op = "unload_plugin"
     /\ last.name \in DOMAIN last.pre_loaded
     /\ LoadedDependents(last.name, last.pre_loaded) # {})
    => (/\ last.raised = "PluginLoadError"
        /\ LoadedDependents(last.name, last.pre_loaded) \subseteq last.named
        /\ ~Logged(Ev("cleanup", last.name, None))
        /\ last.name \in DOMAIN loaded_plugins)

(***************************************************************************)
(* C2: unload_plugin(D) succeeds whenever no currently loaded plugin       *)
(* depends on D: plugins that are only registered in the dependency graph  *)
(* do not block it.                                                        *)
(***************************************************************************)
C2_UnloadDependsOnLoadedOnly ==
    (/\ last.op = "unload_plugin"
     /\ last.name \in DOMAIN last.pre_loaded
     /\ LoadedDependents(last.name, last.pre_loaded) = {})
    => (/\ last.raised = None
        /\ last.name \notin DOMAIN loaded_plugins)

(***************************************************************************)
(* C3: a load that fails at the capability check, at initialize() or at    *)
(* validate() leaves the plugin instance with status FAILED, never LOADED. *)
(***************************************************************************)
FailedAtCapability(p) == Logged(Ev("issubclass", p, "False"))

FailedAtInitialize(p) ==
    \E r \in {"False", "raised"} : Logged(Ev("initialize_result", p, r))

FailedAtValidate(p) ==
    \E r \in {"False", "raised"} : Logged(Ev("validate", p, r))

C3_FailedLoadMarksFailed ==
    \A p \in Plugins :
        (FailedAtCapability(p) \/ FailedAtInitialize(p) \/ FailedAtValidate(p))
        => /\ \E inst \in last.failed : inst.name = p /\ inst.status = "FAILED"
           /\ \A inst \in last.failed : inst.name = p => inst.status # "LOADED"

(***************************************************************************)
(* C4: a load takes its steps in the order version check, module           *)
(* resolution, capability check, instantiation (status LOADING),           *)
(* initialize(config), validate(); a failed step is the last step of that  *)
(* load (an incompatible version: no module executed, no instance); and a  *)
(* plugin is LOADED and stored in the loaded set only after initialize     *)
(* and validate both returned true.                                        *)
(***************************************************************************)
StepOrder ==
    <<"version_check", "exec_module", "issubclass", "instantiate", "LOADING",
      "initialize", "initialize_result", "validate", "LOADED", "store">>

\* the same order when the module is served from the loader's cache
StepOrderCached == <<"version_check">> \o SubSeq(StepOrder, 3, Len(StepOrder))

StepsInOrder(p) ==
    IsPrefix(LoadSteps(p), StepOrder) \/ IsPrefix(LoadSteps(p), StepOrderCached)

FailureIsLastStep(p) ==
    /\ FailedAtCapability(p) => LoadSteps(p)[Len(LoadSteps(p))] = "issubclass"
    /\ FailedAtInitialize(p)
       => LoadSteps(p)[Len(LoadSteps(p))] = "initialize_result"
    /\ FailedAtValidate(p) => LoadSteps(p)[Len(LoadSteps(p))] = "validate"
    /\ (/\ LoadSteps(p) # <<>>
        /\ Compatibility[RequiresOf(catalog[p])].raised = None
        /\ ~Compatibility[RequiresOf(catalog[p])].ok)
       => LoadSteps(p) = <<"version_check">>

StoredOnlyAfterSuccess(p) ==
    /\ (Positions("store", p) # {} \/ Logged(Ev("status", p, "LOADED")))
       => /\ Logged(Ev("initialize_result", p, "True"))
          /\ Logged(Ev("validate", p, "True"))
    /\ p \in DOMAIN loaded_plugins
       => /\ loaded_plugins[p].status = "LOADED"
          /\ \/ Positions("store", p) # {}
             \/ /\ p \in DOMAIN last.pre_loaded
                /\ loaded_plugins[p] = last.pre_loaded[p]

Discovered == Range(discovered_plugins)

DiscoveredCycle == \E p \in Discovered : p \in TransitiveDeps(p)

DiscoveredMissing ==
    \E p \in Discovered : \E d \in Plugins : Declares(p, d) /\ d \notin Discovered

C5_BrokenSetFailsBeforeAnyLoad ==
    (last.op = "load_all_plugins" /\ (DiscoveredCycle \/ DiscoveredMissing))
    => /\ last.raised = "PluginLoadError"
       /\ \A p \in Plugins :
              Positions("exec_module", p) = {} /\ Positions("instantiate", p) = {}
       /\ loaded_plugins = last.pre_loaded

(***************************************************************************)
(* C6: when resolution and every load succeed, load_all_plugins leaves     *)
(* every discovered plugin loaded, and initialize() of a plugin runs only  *)
(* after each of its declared dependencies has been loaded successfully.   *)
(***************************************************************************)
LoadedBefore(d, i) ==
    \/ d \in DOMAIN last.pre_loaded
    \/ \E j \in Positions("store", d) : j < i

C6_BatchLoadsAllInDependencyOrder ==
    (last.op = "load_all_plugins" /\ last.raised = None)
    => /\ Discovered \subseteq DOMAIN loaded_plugins
       /\ \A p \in Plugins : \A i \in Positions("initialize", p) :
              \A d \in Plugins : Declares(p, d) => LoadedBefore(d, i)

(***************************************************************************)
(* C7: in load_all_plugins the load failure of one plugin aborts only that *)
(* plugin: every other discovered plugin that does not depend on it,       *)
(* directly or transitively, is loaded by the same call.                   *)
(***************************************************************************)
C7_FailureAbortsOnlyThatPlugin ==
    (last.op = "load_all_plugins" /\ FailedPlugin # None)
    => \A q \in Discovered \ {FailedPlugin} :
           FailedPlugin \notin TransitiveDeps(q) => q \in DOMAIN loaded_plugins

(***************************************************************************)
(* C8: a successful load_plugin(name) adds to the loaded set exactly name  *)
(* and its transitive dependencies that were not loaded, dependencies      *)
(* first, and changes no other plugin.                                     *)
(***************************************************************************)
C8_LazyLoadAddsExactlyTheClosure ==
    (last.op = "load_plugin" /\ last.raised = None)
    => /\ DOMAIN loaded_plugins \ DOMAIN last.pre_loaded
          = ({last.name} \cup TransitiveDeps(last.name)) \ DOMAIN last.pre_loaded
       /\ \A p \in DOMAIN last.pre_loaded :
              p \in DOMAIN loaded_plugins /\ loaded_plugins[p] = last.pre_loaded[p]
       /\ \A p \in Plugins : \A i \in Positions("initialize", p) :
              \A d \in Plugins : Declares(p, d) => LoadedBefore(d, i)

(***************************************************************************)
(* C9: reload_plugin(name) re-initializes the plugin with the              *)
(* configuration it was most recently loaded with, whether that came from  *)
(* load_all_plugins(configs) or from load_plugin(name, config).            *)
(***************************************************************************)
C9_ReloadKeepsLastConfig ==
    (/\ last.op = "reload_plugin"
     /\ last.name \in DOMAIN last.pre_loaded
     /\ Positions("initialize", last.name) # {})
    => Logged(Ev("initialize", last.name, last.pre_loaded[last.name].config))

(***************************************************************************)
(* C10: for an acyclic dependency graph in which every declared            *)
(* dependency is registered, resolve() returns every registered plugin     *)
(* exactly once, each after all of its declared dependencies, and leaves   *)
(* the registered graph unchanged.                                         *)
(***************************************************************************)
RECURSIVE GraphReach(_, _, _)
\* the plugins reachable from the set S along the edges of graph
GraphReach(graph, S, n) ==
    IF n = 0 THEN S
    ELSE GraphReach(graph,
                    S \cup UNION {Range(GraphGet(graph, p)) : p \in S}, n - 1)

GraphAcyclic(graph) ==
    \A p \in GraphKeys(graph) :
        p \notin GraphReach(graph, Range(GraphGet(graph, p)), Len(graph))

GraphComplete(graph) ==
    \A p \in GraphKeys(graph) : Range(GraphGet(graph, p)) \subseteq GraphKeys(graph)

DependenciesFirst(graph, order) ==
    \A i \in DOMAIN order : \A d \in Range(GraphGet(graph, order[i])) :
        \E j \in 1..(i - 1) : order[j] = d

C10_ResolveIsTopologicalOrder ==
    (/\ last.op = "resolve"
     /\ GraphAcyclic(dependency_graph)
     /\ GraphComplete(dependency_graph))
    => /\ last.raised = None
       /\ Range(last.load_order) = GraphKeys(dependency_graph)
       /\ Len(last.load_order) = Cardinality(GraphKeys(dependency_graph))
       /\ DependenciesFirst(dependency_graph, last.load_order)
       /\ dependency_graph = last.pre_graph
       /\ available_plugins = last.pre_available

\* resolve() of a graph of three plugins, one with two dependencies, whose
\* iteration starts at a plugin that has dependencies
C10_Witness ==
    /\ last.op = "resolve"
    /\ GraphAcyclic(dependency_graph)
    /\ GraphComplete(dependency_graph)
    /\ Len(dependency_graph) = 3
    /\ \E p \in GraphKeys(dependency_graph) :
           Cardinality(Range(GraphGet(dependency_graph, p))) = 2
    /\ GraphGet(dependency_graph, last.iter_order[1]) # <<>>
    /\ Len(last.load_order) = 3

(***************************************************************************)
(* C11: when every declared dependency is registered, resolve() raises a   *)
(* circular-dependency error if and only if the graph has a dependency     *)
(* cycle (a plugin listing itself included), and the plugin the error      *)
(* names lies on a cycle.                                                  *)
(***************************************************************************)
OnCycle(graph, p) ==
    p \in GraphReach(graph, Range(GraphGet(graph, p)), Len(graph))

C11_CircularErrorIffCycle ==
    (last.op = "resolve" /\ GraphComplete(dependency_graph))
    => /\ (last.raised = "CircularDependencyError")
              <=> ~GraphAcyclic(dependency_graph)
       /\ last.raised = "CircularDependencyError"
              => OnCycle(dependency_graph, last.plugin)
       /\ last.raised \in {None, "CircularDependencyError"}

\* resolve() of a complete graph whose iteration starts at a plugin that is
\* on no cycle but depends on one that is
C11_Witness ==
    /\ last.op = "resolve"
    /\ GraphComplete(dependency_graph)
    /\ last.raised = "CircularDependencyError"
    /\ Len(dependency_graph) = 3
    /\ ~OnCycle(dependency_graph, last.iter_order[1])
    /\ last.plugin # last.iter_order[1]

(***************************************************************************)
(* C12: if a registered plugin X declares a dependency Y that is not       *)
(* registered, resolve() raises a missing-dependency error naming X and Y, *)
(* before the traversal, so also when the graph has a cycle as well.       *)
(***************************************************************************)
C12_MissingDependencyReportedFirst ==
    (last.op = "resolve" /\ ~GraphComplete(dependency_graph))
    => /\ last.raised = "MissingDependencyError"
       /\ last.plugin \in GraphKeys(dependency_graph)
       /\ last.dep \in Range(GraphGet(dependency_graph, last.plugin))
       /\ last.dep \notin available_plugins
       /\ last.load_order = <<>>

\* resolve() of a graph that has both an unregistered dependency and a cycle
C12_Witness ==
    /\ last.op = "resolve"
    /\ ~GraphComplete(dependency_graph)
    /\ ~GraphAcyclic(dependency_graph)
    /\ last.raised = "MissingDependencyError"

(***************************************************************************)
(* C13: for an acyclic registered graph and a set S of plugin names,       *)
(* get_unload_order(S) returns each member of S exactly once, every plugin *)
(* before each of its dependencies that is in S; dependencies outside S    *)
(* put no constraint and raise no missing-dependency error.                *)
(***************************************************************************)
DependentsFirst(graph, S, order) ==
    \A i \in DOMAIN order :
        \A d \in Range(GraphGet(graph, order[i])) \cap S :
            \E j \in (i + 1)..Len(order) : order[j] = d

C13_UnloadOrderDependentsFirst ==
    (last.op = "get_unload_order" /\ GraphAcyclic(dependency_graph))
    => /\ last.raised = None
       /\ Range(last.load_order) = Range(last.plugins_to_unload)
       /\ Len(last.load_order) = Cardinality(Range(last.plugins_to_unload))
       /\ DependentsFirst(dependency_graph, Range(last.plugins_to_unload),
                          last.load_order)
       /\ dependency_graph = last.pre_graph
       /\ available_plugins = last.pre_available

\* an unload order for two plugins, one depending on the other and one
\* depending on a plugin that is not to be unloaded
C13_Witness ==
    /\ last.op = "get_unload_order"
    /\ GraphAcyclic(dependency_graph)
    /\ Len(last.load_order) = 2
    /\ \E p, d \in Range(last.plugins_to_unload) :
           d \in Range(GraphGet(dependency_graph, p))
    /\ \E p \in Range(last.plugins_to_unload) :
           Range(GraphGet(dependency_graph, p))
               \ Range(last.plugins_to_unload) # {}

(***************************************************************************)
(* C14: over any sequence of manager calls, once the module of a (plugin   *)
(* directory, module path) has been executed successfully it is not        *)
(* executed again: later loads take it from the cache, also after a load   *)
(* that failed at instantiation, initialize() or validate().               *)
(***************************************************************************)
\* the plugins whose entry point resolves to the cache key of p
SameModule(p) ==
    {q \in Plugins : unique_module_name(catalog[q]) = unique_module_name(catalog[p])}

\* the number of times the call executed the module of p
Executions(p) ==
    Cardinality({i \in DOMAIN last.events :
                    last.events[i].e = "exec_module"
                    /\ last.events[i].p \in SameModule(p)})

\* the module of p was executed and went on to the lookup of the class
ExecutedSuccessfully(p) ==
    \E i \in DOMAIN last.events :
        /\ i < Len(last.events)
        /\ last.events[i].e = "exec_module"
        /\ last.events[i].p \in SameModule(p)
        /\ last.events[i + 1].e = "issubclass"

C14_ModuleExecutedOnce ==
    [][\A p \in Plugins :
          /\ unique_module_name(catalog[p]) \in loaded_modules
             => /\ Executions(p)' = 0
                /\ unique_module_name(catalog[p]) \in loaded_modules'
          /\ ExecutedSuccessfully(p)'
             => /\ Executions(p)' = 1
                /\ unique_module_name(catalog[p]) \in loaded_modules']_vars

\* the second call loads a plugin that is not loaded from the cached module:
\* the first call executed the module and failed afterwards
C14_Witness ==
    /\ calls = 2
    /\ last.op = "load_plugin"
    /\ last.raised = None
    /\ last.name \notin DOMAIN last.pre_loaded
    /\ Logged(Ev("issubclass", last.name, "True"))
    /\ Executions(last.name) = 0
    /\ last.name \in DOMAIN loaded_plugins

(***************************************************************************)
(* C15: the module cache is keyed by the pair (plugin directory, module    *)
(* path): plugins in different directories or with different module paths  *)
(* share no cache entry, so no plugin's type is resolved from another      *)
(* plugin's module file.  Stated for the first call on a manager, whose    *)
(* cache starts empty: a plugin whose type was looked up had its own       *)
(* module file executed.                                                   *)
(***************************************************************************)
C15_TypeResolvedFromOwnModule ==
    calls = 1
    => \A p \in Plugins :
           (/\ Positions("issubclass", p) # {}
            /\ \A q \in Plugins \ {p} :
                   <<catalog[q].directory, catalog[q].module_path>>
                       # <<catalog[p].directory, catalog[p].module_path>>)
           => Positions("exec_module", p) # {}

(***************************************************************************)
(* C16: every failure of a load (version incompatibility, an unusable      *)
(* requires_version value included, type resolution, capability check,     *)
(* instantiation, initialize, validate, dependency resolution) reaches the *)
(* caller of load_plugin / load_all_plugins as PluginLoadError and as no   *)
(* other kind of error.                                                    *)
(***************************************************************************)
C16_OnlyPluginLoadErrorEscapes ==
    last.op \in {"load_all_plugins", "load_plugin"}
    => last.raised \in {None, "PluginLoadError"}

(***************************************************************************)
(* The version ordering as the specification words it: major, minor and    *)
(* patch numerically, then a version without prerelease tag above one with *)
(* a tag, then the tags as plain text; build metadata plays no part.       *)
(***************************************************************************)
SameRelease(a, b) ==
    a.major = b.major /\ a.minor = b.minor /\ a.patch = b.patch

OrderLess(a, b) ==
    \/ a.major < b.major
    \/ a.major = b.major /\ a.minor < b.minor
    \/ a.major = b.major /\ a.minor = b.minor /\ a.patch < b.patch
    \/ SameRelease(a, b) /\ a.prerelease # <<>> /\ b.prerelease = <<>>
    \/ /\ SameRelease(a, b) /\ a.prerelease # <<>> /\ b.prerelease # <<>>
       /\ StrLess(a.prerelease, b.prerelease)

OrderEqual(a, b) == SameRelease(a, b) /\ a.prerelease = b.prerelease

(***************************************************************************)
(* C17: v.is_compatible_with(r) is true if and only if v.major = r.major   *)
(* and v >= r in the version ordering; a host on a newer major line is     *)
(* never compatible with a requirement on an older one.                    *)
(***************************************************************************)
C17_CompatibleIffSameMajorAndNotOlder ==
    last.op = "is_compatible_with"
    => /\ last.result
              <=> /\ last.v.major = last.required_version.major
                  /\ ~OrderLess(last.v, last.required_version)
       /\ last.v.major > last.required_version.major => ~last.result

\* a host of a newer major line asked about a requirement of an older one
C17_Witness ==
    /\ last.op = "is_compatible_with"
    /\ last.v.major > last.required_version.major
    /\ ~last.result

(***************************************************************************)
(* C18: ==, <, <=, >, >= implement one total order that ignores build      *)
(* metadata: the ordering above; of a < b, a == b, a > b exactly one       *)
(* holds, and a <= b iff not a > b.                                        *)
(***************************************************************************)
ExactlyOne(x, y, z) == (x /\ ~y /\ ~z) \/ (~x /\ y /\ ~z) \/ (~x /\ ~y /\ z)

C18_ComparisonsAreOneTotalOrder ==
    last.op = "compare"
    => \A i, j \in DOMAIN last.versions :
           /\ last.lt[i][j] <=> OrderLess(last.versions[i], last.versions[j])
           /\ last.eq[i][j] <=> OrderEqual(last.versions[i], last.versions[j])
           /\ ExactlyOne(last.lt[i][j], last.eq[i][j], last.gt[i][j])
           /\ last.le[i][j] <=> ~last.gt[i][j]
           /\ last.le[i][j] <=> (last.lt[i][j] \/ last.eq[i][j])
           /\ last.ge[i][j] <=> (last.gt[i][j] \/ last.eq[i][j])
           /\ last.gt[i][j] <=> last.lt[j][i]
           /\ \A k \in DOMAIN last.versions :
                  last.lt[i][j] /\ last.lt[j][k] => last.lt[i][k]

\* a comparison of two versions that differ in build metadata only with a
\* prerelease of the same release
C18_Witness ==
    /\ last.op = "compare"
    /\ \E i, j, k \in DOMAIN last.versions :
           /\ last.versions[i].metadata # last.versions[j].metadata
           /\ last.eq[i][j]
           /\ last.versions[k].prerelease # <<>>
           /\ SameRelease(last.versions[k], last.versions[i])
           /\ last.lt[k][i]
           /\ last.gt[j][k]

(***************************************************************************)
(* C19: check_plugin_compatibility(name, required_version) never raises,   *)
(* whatever required_version a manifest supplies: a malformed or unusable  *)
(* value gives (false, message).                                           *)
(***************************************************************************)
C19_CompatibilityCheckNeverRaises ==
    last.op = "check_plugin_compatibility"
    => /\ last.raised = None
       /\ SemanticVersion(last.required_version).raised # None => ~last.ok

(***************************************************************************)
(* C20: validate() runs every check without short-circuiting: for any      *)
(* manifest mapping it returns false iff at least one check is violated,   *)
(* and get_errors() then holds the entries of the violated checks of that  *)
(* call only, one naming each missing required field included.             *)
(***************************************************************************)
When(violated, check) == IF violated THEN {check} ELSE {}

\* a field holds text that its pattern does not match, or a number
Unmatched(value, matches) ==
    \/ value.t = "int"
    \/ value.t = "str" /\ value.v # <<>> /\ ~matches

\* the checks a manifest violates
ViolatedChecks(manifest) ==
    {<<"required", f>> : f \in {g \in Range(REQUIRED_FIELDS) :
                                  manifest[g].t = "absent"}}
    \cup When(Unmatched(manifest.name,
                        Range(manifest.name.v) \subseteq NameChars),
              <<"name", "">>)
    \cup When(Unmatched(manifest.version,
                        SemanticVersion(manifest.version).raised = None),
              <<"version", "">>)
    \cup When(Unmatched(manifest.type, manifest.type.v \in VALID_TYPES),
              <<"type", "">>)
    \cup When(Unmatched(manifest.entry_point,
                        Range(manifest.entry_point.v) \subseteq EntryPointChars),
              <<"entry_point", "">>)
    \cup When(manifest.dependencies.t \notin {"absent", "list"},
              <<"dependencies", "list">>)
    \cup When(/\ manifest.dependencies.t = "list"
              /\ \E i \in DOMAIN manifest.dependencies.v :
                     manifest.dependencies.v[i].t # "str",
              <<"dependencies", "item">>)
    \cup When(Unmatched(manifest.requires_version,
                        IsPlainVersion(manifest.requires_version.v)),
              <<"requires_version", "">>)

C20_ValidateReportsEveryViolatedCheck ==
    last.op = "validate"
    => /\ last.raised = None
       /\ last.result <=> ViolatedChecks(last.manifest) = {}
       /\ {<<last.errors[i].check, last.errors[i].about>> :
              i \in DOMAIN last.errors} = ViolatedChecks(last.manifest)

(***************************************************************************)
(* C21: a manifest for which validate() returns true satisfies the         *)
(* manifest invariants: name matches [a-z0-9_-]+, version and              *)
(* requires_version are well-formed semantic versions, type is one of the  *)
(* fixed values and entry_point is made of the safe characters.            *)
(***************************************************************************)
WellFormedVersion(value) ==
    value.t = "str" /\ SemanticVersion(value).raised = None

ManifestInvariants(manifest) ==
    /\ manifest.name.t = "str" /\ manifest.name.v # <<>>
    /\ Range(manifest.name.v) \subseteq NameChars
    /\ WellFormedVersion(manifest.version)
    /\ manifest.requires_version.t = "absent"
       \/ WellFormedVersion(manifest.requires_version)
    /\ manifest.type.t = "str" /\ manifest.type.v \in VALID_TYPES
    /\ manifest.entry_point.t = "str" /\ manifest.entry_point.v # <<>>
    /\ Range(manifest.entry_point.v) \subseteq EntryPointChars

C21_ValidManifestSatisfiesInvariants ==
    (last.op = "validate" /\ last.raised = None /\ last.result)
    => ManifestInvariants(last.manifest)

(***************************************************************************)
(* C22: discover() completes normally whatever the search directories      *)
(* hold: a directory whose manifest is unparsable, is not a well-shaped    *)
(* mapping or fails validation is skipped, and every directory with a      *)
(* valid manifest is returned.                                             *)
(***************************************************************************)
C22_DiscoverSkipsBadManifests ==
    last.op = "discover"
    => /\ last.raised = None
       /\ last.discovered
              = DirList({d \in Plugins : last.contents[d] = "valid"})
       /\ discovered_plugins = last.discovered

(***************************************************************************)
(* C23: discovery never executes plugin code: a discover_plugins() call,   *)
(* after whatever calls came before it, executes no plugin module, leaves  *)
(* the loader's module cache as it was, instantiates no plugin and leaves  *)
(* the loaded set as it was.                                               *)
(***************************************************************************)
C23_DiscoveryExecutesNoPluginCode ==
    [][last'.op = "discover_plugins"
       => /\ last'.events = <<>>
          /\ loaded_modules' = loaded_modules
          /\ loaded_plugins' = loaded_plugins]_vars

\* a discovery on a manager that has loaded plugins and cached modules
C23_Witness ==
    /\ last.op = "discover_plugins"
    /\ calls >= 2
    /\ loaded_modules # {}
    /\ DOMAIN loaded_plugins # {}
    /\ Len(discovered_plugins) > 0

(***************************************************************************)
(* C24: for every configuration tree, every dot-separated key path and     *)
(* every value, set(key, value) succeeds, creating the intermediate        *)
(* mappings it needs, and a get(key) after it returns the value.           *)
(***************************************************************************)
C24_SetThenGetReturnsValue ==
    last.op = "set"
    => /\ last.raised = None
       /\ get(last.config_data, Split(last.key, "."), Absent) = last.value

\* res holds the deep merge of new into old: the keys of both, and at each
\* key the merge of two mappings, else the new value, else the old one
RECURSIVE DeepMerge(_, _, _)
DeepMerge(old, new, res) ==
    /\ DOMAIN res = DOMAIN old \cup DOMAIN new
    /\ \A key \in DOMAIN res :
           IF key \notin DOMAIN new THEN res[key] = old[key]
           ELSE IF key \in DOMAIN old /\ old[key].t = "dict"
                   /\ new[key].t = "dict"
           THEN /\ res[key].t = "dict"
                /\ DeepMerge(old[key].v, new[key].v, res[key].v)
           ELSE res[key] = new[key]

(***************************************************************************)
(* C25: update(partial) leaves the recursive deep merge of partial into    *)
(* the tree: two mappings under one key are merged key by key, any other   *)
(* new value replaces the old one wholesale, arrays included, and a key    *)
(* that partial does not mention keeps its value at every nesting level.   *)
(***************************************************************************)
C25_UpdateIsDeepMerge ==
    last.op = "update"
    => /\ last.raised = None
       /\ last.config_data.t = "dict"
       /\ DeepMerge(last.pre.v, last.value.v, last.config_data.v)

\* an update of the mapping under a that changes b there and leaves its
\* sibling a, and the top-level sibling b, alone
C25_Witness ==
    /\ last.op = "update"
    /\ <<"b">> \in DOMAIN last.pre.v
    /\ <<"a">> \in DOMAIN last.pre.v
    /\ last.pre.v[<<"a">>].t = "dict"
    /\ DOMAIN last.pre.v[<<"a">>].v = {<<"a">>, <<"b">>}
    /\ <<"a">> \in DOMAIN last.value.v
    /\ last.value.v[<<"a">>].t = "dict"
    /\ DOMAIN last.value.v[<<"a">>].v = {<<"b">>}
    /\ last.value.v[<<"a">>].v[<<"b">>] # last.pre.v[<<"a">>].v[<<"b">>]
    /\ last.config_data.v[<<"a">>].v[<<"a">>] = last.pre.v[<<"a">>].v[<<"a">>]

(***************************************************************************)
(* C26: the dependency graph is rebuilt from the discovered manifests:     *)
(* after every load_all_plugins call its nodes are the names of the        *)
(* currently discovered manifests, each with the dependencies its manifest *)
(* declares, and a plugin that is no longer discovered is no node of it.   *)
(***************************************************************************)
C26_GraphIsRebuiltFromDiscovered ==
    last.op = "load_all_plugins"
    => /\ GraphKeys(dependency_graph) = Discovered
       /\ available_plugins = Discovered
       /\ \A p \in Discovered :
              GraphGet(dependency_graph, p) = catalog[p].dependencies

(***************************************************************************)
(* C28: load_plugin(name) ends by returning or by raising PluginLoadError  *)
(* for every discovered plugin set, those included in which the            *)
(* dependencies reachable from name hold a cycle or a plugin that depends  *)
(* on itself.  Stated for the names that depend on themselves, directly or *)
(* through other plugins.                                                  *)
(***************************************************************************)
C28_LoadPluginReturnsOrRaisesLoadError ==
    (last.op = "load_plugin" /\ last.name \in TransitiveDeps(last.name))
    => last.raised \in {None, "PluginLoadError"}

\* the instance that was loaded under p before the call is no longer the one
\* in the loaded set: the entry was deleted or another instance was stored
LeftLoadedSet(p) ==
    /\ p \in DOMAIN last.pre_loaded
    /\ p \notin DOMAIN loaded_plugins \/ Positions("store", p) # {}

\* unload_plugin took p out: cleanup(), status = UNLOADED, del, and whatever
\* was stored under p was stored after that
UnloadedWithCleanup(p) ==
    \E i \in DOMAIN last.events :
        /\ i + 2 <= Len(last.events)
        /\ last.events[i] = Ev("cleanup", p, None)
        /\ last.events[i + 1] = Ev("status", p, "UNLOADED")
        /\ last.events[i + 2] = Ev("del", p, None)
        /\ \A j \in Positions("store", p) : j > i + 2

(***************************************************************************)
(* C29: in every sequence of PluginManager operations an instance of the   *)
(* loaded set leaves it, removed or replaced by another instance, only     *)
(* through unload_plugin, after cleanup() was called on it and its status  *)
(* was set to UNLOADED; a second load_all_plugins, or load_all_plugins     *)
(* after load_plugin, replaces no loaded instance without cleanup.         *)
(***************************************************************************)
C29_LoadedInstanceLeavesOnlyByUnload ==
    \A p \in Plugins : LeftLoadedSet(p) => UnloadedWithCleanup(p)

\* the load went past the version check of load_plugin
VersionCheckPassed == Len(last.events) > 1

\* the load stopped at the version check with PluginLoadError
VersionCheckFailed ==
    /\ last.raised = "PluginLoadError"
    /\ last.events = <<Ev("version_check", "c", None)>>

\* the host version, parsed
Host == SemanticVersion(last.system_version)

\* a load of the plugin whose manifest omits requires_version
LoadOfDefault ==
    last.op = "load_plugin" /\ last.manifest.requires_version.t = "absent"

(***************************************************************************)
(* C30 as stated: a manifest that omits requires_version is checked as     *)
(* requiring "0.0.0", and the version check of load_plugin accepts it if   *)
(* and only if the host's major version is 0; on a host with major version *)
(* 1 or higher loading it fails with PluginLoadError.                      *)
(***************************************************************************)
C30_DefaultAcceptedIffHostMajorZero ==
    LoadOfDefault
    => /\ last.required_version = PyStr(<<"0", ".", "0", ".", "0">>)
       /\ VersionCheckPassed <=> Host.major = 0
       /\ Host.major >= 1 => VersionCheckFailed

(***************************************************************************)
(* C30, corrected: a manifest that omits requires_version is checked as    *)
(* requiring "0.0.0", and the version check of load_plugin accepts it if   *)
(* and only if the host's major version is 0 and the host is not a         *)
(* prerelease of 0.0.0, which is older than 0.0.0; on every other host,    *)
(* the default 1.0.0 included, loading it fails with PluginLoadError.      *)
(***************************************************************************)
C30_DefaultAcceptedIffHostIsZeroRelease ==
    LoadOfDefault
    => /\ last.required_version = PyStr(<<"0", ".", "0", ".", "0">>)
       /\ VersionCheckPassed
          <=> /\ Host.major = 0
              /\ ~(Host.minor = 0 /\ Host.patch = 0 /\ Host.prerelease # <<>>)
       /\ ~VersionCheckPassed => VersionCheckFailed
       /\ Host.major >= 1 => VersionCheckFailed

\* the default host 1.0.0 refused the plugin that names no version
C30_Witness ==
    /\ LoadOfDefault
    /\ last.system_version = system_version
    /\ VersionCheckFailed

\* how many times the module of cache key `key` was executed
ExecutionsOfKey(key) ==
    Cardinality({t \in Threads : KeyOf(t) = key /\ threads[t].executed = 1})

\* the cache entries are those of the keys whose load reached the insertion,
\* whatever the other thread did
CacheEntriesOwn ==
    /\ \A t \in Threads : threads[t].pc = "done" => KeyOf(t) \in loaded_modules
    /\ \A key \in loaded_modules :
           \E t \in Threads : KeyOf(t) = key /\ threads[t].executed = 1

====
